---- MODULE Spec2Model ----
(***************************************************************************)
(* Model of the Verified Provenance reference verifier                     *)
(* (src/scripts/vp_verify.py): the chain verifier verify_chain, the        *)
(* discovery client verify_remote_artifact, the codec they rest on and the *)
(* command line of main with run_vectors.                                  *)
(*                                                                         *)
(* Representation of Python values:                                        *)
(*   str        a sequence of TLA+ strings ("chunks"): "" is <<>>, " a" is *)
(*              <<" ", "a">>; a literal that is only ever compared as a    *)
(*              whole (a timestamp, an event type) is one chunk;           *)
(*   dict       a record whose DOMAIN is the set of keys that are present; *)
(*   Optional   <<>> for None, <<v>> for the value v;                      *)
(*   a JSON value that is not an object is a record with the key           *)
(*              "json_type".                                               *)
(***************************************************************************)
EXTENDS Integers, Sequences, FiniteSets, TLC

(***************************************************************************)
(* Verdicts and the attestation event types (vp_verify.py lines 21-28).    *)
(***************************************************************************)
VERDICT_VERIFIED == "VERIFIED"
VERDICT_UNDECLARED == "UNDECLARED"
VERDICT_UNVERIFIABLE == "UNVERIFIABLE"
VERDICT_INVALID_INPUT == "INVALID_INPUT"
VERDICT_INVALID_CHAIN == "INVALID_CHAIN"
VERDICT_POLICY_VIOLATION == "POLICY_VIOLATION"

Verdicts ==
    {VERDICT_VERIFIED, VERDICT_UNDECLARED, VERDICT_UNVERIFIABLE,
     VERDICT_INVALID_INPUT, VERDICT_INVALID_CHAIN, VERDICT_POLICY_VIOLATION}

ATTESTATION_EVENTS == {<<"ATTESTATION_ISSUED">>, <<"ATTESTATION_SUPERSEDED">>}

(***************************************************************************)
(* Python str and dict primitives.                                         *)
(***************************************************************************)
None == <<>>

Some(v) == <<v>>

\* Python's isinstance(v, dict): every non-object JSON value carries json_type.
IsDict(v) == "json_type" \notin DOMAIN v

\* dict.get(key) -> Optional
Get(d, key) == IF key \in DOMAIN d THEN Some(d[key]) ELSE None

\* str(dict.get(key, "")) for the keys whose values are strings when present
StrGet(d, key) == IF key \in DOMAIN d THEN d[key] ELSE <<>>

\* copy.deepcopy(d) followed by d.pop(key, None)
Pop(d, key) == [k \in DOMAIN d \ {key} |-> d[k]]

\* dict(d, key=value)
Put(d, key, value) == [k \in DOMAIN d \cup {key} |-> IF k = key THEN value ELSE d[k]]

IsSpace(c) == c = " "

RECURSIVE LStrip(_)
LStrip(s) == IF s # <<>> /\ IsSpace(Head(s)) THEN LStrip(Tail(s)) ELSE s

RECURSIVE RStrip(_)
RStrip(s) ==
    IF s # <<>> /\ IsSpace(s[Len(s)]) THEN RStrip(SubSeq(s, 1, Len(s) - 1)) ELSE s

\* str.strip()
Strip(s) == RStrip(LStrip(s))

\* Code-point order of the chunks that occur in sort keys, as Python orders
\* the strings they stand for.
ChunkRank(c) ==
    CASE c = " " -> 1
      [] c = "2024-01-01T00:00:00" -> 2
      [] c = "2024-01-01T00:00:00Z" -> 3
      [] c = "2024-01-01T23:00:00-05:00" -> 4
      [] c = "2024-01-02T00:00:00Z" -> 5
      [] c = "2024-01-03T00:00:00Z" -> 6
      [] c = "a" -> 7
      [] c = "b" -> 8
      [] c = "c" -> 9
      [] c = "not-a-timestamp" -> 10
      [] OTHER -> 11

\* Python's s < t on str
RECURSIVE StrLess(_, _)
StrLess(s, t) ==
    IF t = <<>> THEN FALSE
    ELSE IF s = <<>> THEN TRUE
    ELSE IF Head(s) = Head(t) THEN StrLess(Tail(s), Tail(t))
    ELSE ChunkRank(Head(s)) < ChunkRank(Head(t))

(***************************************************************************)
(* CanonicalCodec: canonical JSON, SHA-256, the event hash.                *)
(***************************************************************************)
\* Every key of the modelled documents, in the order sort_keys=True emits them.
SortedKeys ==
    <<"alg", "artifact", "canonicalization", "effective_at", "entry_id",
      "event_hash", "event_id", "event_type", "issuer", "prev_event_hash",
      "recorded_at", "signature", "timestamp", "transparency", "value">>

\* The keys whose values are JSON objects; every other value is a string.
ObjectKeys == {"signature", "timestamp", "transparency"}

JsonString(s) == <<"\"">> \o s \o <<"\"">>

\* json.dumps(value, ensure_ascii=False, separators=(",", ":"), sort_keys=True)
RECURSIVE JsonMembers(_, _, _)
RECURSIVE canonical_json_bytes(_)
JsonMembers(obj, i, first) ==
    IF i > Len(SortedKeys) THEN <<>>
    ELSE IF SortedKeys[i] \notin DOMAIN obj THEN JsonMembers(obj, i + 1, first)
    ELSE (IF first THEN <<>> ELSE <<",">>)
         \o JsonString(<<SortedKeys[i]>>) \o <<":">>
         \o (IF SortedKeys[i] \in ObjectKeys
                THEN canonical_json_bytes(obj[SortedKeys[i]])
                ELSE JsonString(obj[SortedKeys[i]]))
         \o JsonMembers(obj, i + 1, FALSE)

canonical_json_bytes(value) == <<"{">> \o JsonMembers(value, 1, TRUE) \o <<"}">>

\* hashlib.sha256(raw).hexdigest(), taken as collision-free: the digest is the
\* preimage behind a marker, so two digests are equal iff their preimages are.
sha256_hex(raw) == <<"sha256">> \o raw

\* compute_event_hash without line 133: event_hash stays in the preimage.
compute_event_hash_keep(event) == sha256_hex(canonical_json_bytes(event))

\* Lines 131-134: the digest of the event without its event_hash.
compute_event_hash(event) == sha256_hex(canonical_json_bytes(Pop(event, "event_hash")))

\* The caller's event after the call: line 132 copies it and line 133 pops
\* the key from the copy.
compute_event_hash_argument(event) == event

(***************************************************************************)
(* parse_utc_or_die on the timestamp literals of the model: the instant in *)
(* hours after 2024-01-01T00:00:00Z, or the ValueError it raises.          *)
(***************************************************************************)
parse_utc_or_die(text) ==
    CASE text = <<"2024-01-01T00:00:00Z">> -> [ok |-> TRUE, t |-> 0, err |-> <<>>]
      [] text = <<"2024-01-02T00:00:00Z">> -> [ok |-> TRUE, t |-> 24, err |-> <<>>]
      [] text = <<"2024-01-01T23:00:00-05:00">> -> [ok |-> TRUE, t |-> 28, err |-> <<>>]
      [] text = <<"2024-01-03T00:00:00Z">> -> [ok |-> TRUE, t |-> 48, err |-> <<>>]
      [] text = <<"2024-01-01T00:00:00">> ->
            [ok |-> FALSE, t |-> 0, err |-> <<"timestamp must include timezone">>]
      [] OTHER ->
            [ok |-> FALSE, t |-> 0, err |-> <<"invalid RFC3339 timestamp: ">> \o text]

(***************************************************************************)
(* UrlCanonicalizer: canonicalize_artifact_url (lines 44-83).              *)
(* A URL is cut into chunks at its delimiters: the scheme, ":", the "//"   *)
(* that opens the authority, "@", ":" and the port, each "/" of the path   *)
(* and each segment between them, "?", "#", and each percent escape; an    *)
(* IPv6 literal is cut at "[", "]" and each ":" in it.                     *)
(***************************************************************************)
\* str.lower() on the chunks of the modelled URLs
Lower(c) ==
    CASE c = "HTTPS" -> "https"
      [] c = "HTTP" -> "http"
      [] c = "Example.COM" -> "example.com"
      [] OTHER -> c

\* The chunks urlsplit takes for a scheme when ":" follows them: a letter,
\* then letters, digits, "+", "-" or ".".
IsSchemeName(c) == c \in {"http", "https", "HTTP", "HTTPS", "example.com", "Example.COM"}

\* The index of the first chunk of s that is in stops, Len(s) + 1 if none is.
FirstOf(s, stops) ==
    IF \E i \in 1..Len(s) : s[i] \in stops
    THEN CHOOSE i \in 1..Len(s) : s[i] \in stops /\ \A j \in 1..(i - 1) : s[j] \notin stops
    ELSE Len(s) + 1

\* The index of the last chunk of s that is in stops, 0 if none is.
LastOf(s, stops) ==
    IF \E i \in 1..Len(s) : s[i] \in stops
    THEN CHOOSE i \in 1..Len(s) : s[i] \in stops /\ \A j \in (i + 1)..Len(s) : s[j] \notin stops
    ELSE 0

\* str.partition at the chunk with index at: the texts before and after it.
Partition(s, at) == [head |-> SubSeq(s, 1, at - 1), tail |-> SubSeq(s, at + 1, Len(s))]

\* urlsplit, the scheme: the text before the first ":" if it is a scheme name.
SplitScheme(url) ==
    IF Len(url) >= 2 /\ url[2] = ":" /\ IsSchemeName(url[1])
    THEN [scheme |-> <<Lower(url[1])>>, rest |-> SubSeq(url, 3, Len(url))]
    ELSE [scheme |-> <<>>, rest |-> url]

\* urlsplit, the netloc: what follows a leading "//", up to the first "/",
\* "?" or "#".
SplitNetloc(rest) ==
    IF rest # <<>> /\ Head(rest) = "//"
    THEN [netloc |-> SubSeq(rest, 2, FirstOf(Tail(rest), {"/", "?", "#"})),
          rest |-> SubSeq(rest, FirstOf(Tail(rest), {"/", "?", "#"}) + 1, Len(rest))]
    ELSE [netloc |-> <<>>, rest |-> rest]

\* ipaddress.ip_address(host) is an IPv6Address, on the hosts of the model.
IsIPv6Text(host) == host = <<":", ":", "1">>

\* netloc.partition("[")[2].partition("]")[0]
BracketedHost(netloc) ==
    Partition(Partition(netloc, FirstOf(netloc, {"["})).tail,
              FirstOf(Partition(netloc, FirstOf(netloc, {"["})).tail, {"]"})).head

\* urlsplit raises ValueError for a netloc with one bracket but not the
\* other, and for a bracketed host that is no IPv6 address.
InvalidBrackets(netloc) ==
    \/ (FirstOf(netloc, {"["}) <= Len(netloc)) # (FirstOf(netloc, {"]"}) <= Len(netloc))
    \/ (/\ FirstOf(netloc, {"["}) <= Len(netloc)
        /\ FirstOf(netloc, {"]"}) <= Len(netloc)
        /\ ~IsIPv6Text(BracketedHost(netloc)))

\* urlsplit, the fragment after the first "#" and the query after the first
\* "?" before it.
SplitResult(scheme, netloc, before_fragment, fragment) ==
    [raised |-> IF InvalidBrackets(netloc) THEN "ValueError" ELSE "",
     scheme |-> scheme,
     netloc |-> netloc,
     path |-> Partition(before_fragment, FirstOf(before_fragment, {"?"})).head,
     query |-> Partition(before_fragment, FirstOf(before_fragment, {"?"})).tail,
     fragment |-> fragment]

SplitFragment(scheme, split) ==
    SplitResult(scheme, split.netloc,
                Partition(split.rest, FirstOf(split.rest, {"#"})).head,
                Partition(split.rest, FirstOf(split.rest, {"#"})).tail)

\* urllib.parse.urlsplit(url): scheme, netloc, path, query, fragment, or the
\* ValueError it raises.
urlsplit(url) == SplitFragment(SplitScheme(url).scheme, SplitNetloc(SplitScheme(url).rest))

\* SplitResult.username and .password of the netloc text before its last "@":
\* None when there is no "@", the password None when there is no ":".
UserInfo(have_info, userinfo) ==
    [username |-> IF ~have_info THEN None
                  ELSE Some(Partition(userinfo, FirstOf(userinfo, {":"})).head),
     password |-> IF ~have_info \/ FirstOf(userinfo, {":"}) > Len(userinfo) THEN None
                  ELSE Some(Partition(userinfo, FirstOf(userinfo, {":"})).tail)]

\* SplitResult.hostname, lower-cased and None when empty, and the text of
\* the port, of the netloc text after its last "@".
HostInfo(hostname, port_text) ==
    [hostname |-> IF hostname = <<>> THEN None
                  ELSE Some([i \in 1..Len(hostname) |-> Lower(hostname[i])]),
     port_text |-> port_text]

\* _hostinfo for a host in brackets: the host is the text up to "]" and
\* the port what follows the first ":" after it.
BracketedHostInfo(bracketed) ==
    HostInfo(Partition(bracketed, FirstOf(bracketed, {"]"})).head,
             Partition(Partition(bracketed, FirstOf(bracketed, {"]"})).tail,
                       FirstOf(Partition(bracketed, FirstOf(bracketed, {"]"})).tail,
                               {":"})).tail)

\* _hostinfo: the host goes up to the first ":" unless a "[" opens it.
HostInfoOf(hostinfo) ==
    IF FirstOf(hostinfo, {"["}) <= Len(hostinfo)
    THEN BracketedHostInfo(Partition(hostinfo, FirstOf(hostinfo, {"["})).tail)
    ELSE HostInfo(Partition(hostinfo, FirstOf(hostinfo, {":"})).head,
                  Partition(hostinfo, FirstOf(hostinfo, {":"})).tail)

\* The user info and the host info of a netloc.
Authority(netloc) ==
    [user |-> UserInfo(LastOf(netloc, {"@"}) # 0,
                       Partition(netloc, LastOf(netloc, {"@"})).head),
     host |-> HostInfoOf(Partition(netloc, LastOf(netloc, {"@"})).tail)]

\* SplitResult.port: int(port) of the port texts of the model; a text that
\* is no decimal number or is above 65535 raises ValueError.
PortOf(port_text) ==
    CASE port_text = <<>> -> [raised |-> "", port |-> None]
      [] port_text = <<"80">> -> [raised |-> "", port |-> Some(80)]
      [] port_text = <<"080">> -> [raised |-> "", port |-> Some(80)]
      [] port_text = <<"443">> -> [raised |-> "", port |-> Some(443)]
      [] port_text = <<"8080">> -> [raised |-> "", port |-> Some(8080)]
      [] OTHER -> [raised |-> "ValueError", port |-> None]

\* f"{port}"
PortText(port) ==
    CASE port = 80 -> <<"80">>
      [] port = 443 -> <<"443">>
      [] OTHER -> <<"8080">>

\* path.split("/")
RECURSIVE SplitSlash(_)
SplitSlash(path) ==
    LET at == FirstOf(path, {"/"})
    IN IF at > Len(path) THEN <<path>>
       ELSE <<SubSeq(path, 1, at - 1)>> \o SplitSlash(SubSeq(path, at + 1, Len(path)))

\* "/".join(comps)
RECURSIVE JoinSlash(_)
JoinSlash(comps) ==
    IF comps = <<>> THEN <<>>
    ELSE IF Len(comps) = 1 THEN comps[1]
    ELSE comps[1] \o <<"/">> \o JoinSlash(Tail(comps))

\* The loop of posixpath.normpath over the components of the path.
RECURSIVE NormComps(_, _, _)
NormComps(comps, new_comps, initial_slashes) ==
    IF comps = <<>> THEN new_comps
    ELSE LET comp == Head(comps)
         IN IF comp = <<>> \/ comp = <<".">>
            THEN NormComps(Tail(comps), new_comps, initial_slashes)
            ELSE IF \/ comp # <<"..">>
                    \/ (initial_slashes = 0 /\ new_comps = <<>>)
                    \/ (new_comps # <<>> /\ new_comps[Len(new_comps)] = <<"..">>)
            THEN NormComps(Tail(comps), Append(new_comps, comp), initial_slashes)
            ELSE IF new_comps # <<>>
            THEN NormComps(Tail(comps), SubSeq(new_comps, 1, Len(new_comps) - 1),
                           initial_slashes)
            ELSE NormComps(Tail(comps), new_comps, initial_slashes)

\* normpath keeps one leading slash, or two when the path starts with
\* exactly two.
InitialSlashes(path) ==
    IF Head(path) # "/" THEN 0
    ELSE IF Len(path) >= 2 /\ path[2] = "/" /\ ~(Len(path) >= 3 /\ path[3] = "/") THEN 2
    ELSE 1

\* path or "."
OrDot(path) == IF path = <<>> THEN <<".">> ELSE path

\* posixpath.normpath(path)
normpath(path) ==
    IF path = <<>> THEN <<".">>
    ELSE OrDot([i \in 1..InitialSlashes(path) |-> "/"]
               \o JoinSlash(NormComps(SplitSlash(path), <<>>, InitialSlashes(path))))

\* The percent escapes of the model in upper case; a chunk that is no
\* well-formed escape is left as it is (line 45).
UpperHex(c) ==
    CASE c = "%3a" -> "%3A"
      [] c = "%2f" -> "%2F"
      [] OTHER -> c

normalize_percent_hex(path) == [i \in 1..Len(path) |-> UpperHex(path[i])]

\* Lines 58-63: the user info of the canonical netloc.
CanonicalUserInfo(user) ==
    IF user.username = None THEN <<>>
    ELSE user.username[1]
         \o (IF user.password = None THEN <<>> ELSE <<":">> \o user.password[1])
         \o <<"@">>

\* Lines 65-71: the port is kept unless it is the default port of the scheme.
CanonicalPort(scheme, port) ==
    IF port # None
       /\ ~((scheme = <<"http">> /\ port = Some(80))
            \/ (scheme = <<"https">> /\ port = Some(443)))
    THEN <<":">> \o PortText(port[1])
    ELSE <<>>

\* Lines 76-79: the normalized path starts with "/" and ends with one if
\* the original path did.
RestoreSlashes(trailing_slash, norm_path) ==
    (IF Head(norm_path) # "/" THEN <<"/">> ELSE <<>>)
    \o norm_path
    \o (IF trailing_slash /\ norm_path[Len(norm_path)] # "/" THEN <<"/">> ELSE <<>>)

\* Lines 73-80, original_path being parsed.path or "/".
CanonicalPath(original_path) ==
    normalize_percent_hex(
        RestoreSlashes(original_path[Len(original_path)] = "/", normpath(original_path)))

\* urllib.parse.urlunsplit((scheme, netloc, path, query, "")) for a netloc
\* that is not empty and a path that starts with "/".
urlunsplit(scheme, netloc, path, query) ==
    scheme \o <<":", "//">> \o netloc \o path
    \o (IF query = <<>> THEN <<>> ELSE <<"?">> \o query)

\* Lines 53-83, for a URL that has a scheme and a netloc.
CanonicalizeParsed(parsed, authority, parsed_port) ==
    IF authority.host.hostname = None \/ parsed_port.raised # ""
    THEN [raised |-> "ValueError", url |-> <<>>]
    ELSE [raised |-> "",
          url |-> urlunsplit(parsed.scheme,
                             CanonicalUserInfo(authority.user)
                                 \o authority.host.hostname[1]
                                 \o CanonicalPort(parsed.scheme, parsed_port.port),
                             CanonicalPath(IF parsed.path = <<>> THEN <<"/">> ELSE parsed.path),
                             normalize_percent_hex(parsed.query))]

\* The function from its parsed URL on (lines 50-83).
CanonicalizeSplit(parsed) ==
    IF parsed.raised # "" \/ parsed.scheme = <<>> \/ parsed.netloc = <<>>
    THEN [raised |-> "ValueError", url |-> <<>>]
    ELSE CanonicalizeParsed(parsed, Authority(parsed.netloc),
                            PortOf(Authority(parsed.netloc).host.port_text))

\* canonicalize_artifact_url(url): [raised, url], raised the exception that
\* leaves the function, "" when it returns url.
canonicalize_artifact_url(url) == CanonicalizeSplit(urlsplit(url))

\* urllib.parse.quote(text, safe=""): every character but letters, digits,
\* "_", ".", "-" and "~" is percent-encoded.
QuoteChunk(c) ==
    CASE c = ":" -> "%3A"
      [] c = "//" -> "%2F%2F"
      [] c = "/" -> "%2F"
      [] c = "?" -> "%3F"
      [] c = "@" -> "%40"
      [] c = "=" -> "%3D"
      [] c = "%3A" -> "%253A"
      [] c = "%2F" -> "%252F"
      [] OTHER -> c

quote(text) == [i \in 1..Len(text) |-> QuoteChunk(text[i])]

(***************************************************************************)
(* JSON arrays and other non-object JSON values.                           *)
(***************************************************************************)
JsonArray(items) == [json_type |-> "array", items |-> items]

JsonText(s) == [json_type |-> "string", text |-> s]

\* isinstance(v, list)
IsList(v) == ~IsDict(v) /\ v.json_type = "array"

(***************************************************************************)
(* VerificationResult (lines 112-117): checked_events defaults to 0 and    *)
(* active_event_id to None.                                                *)
(***************************************************************************)
VerificationResult(verdict, errors, checked_events, active_event_id) ==
    [verdict |-> verdict, errors |-> errors, checked_events |-> checked_events,
     active_event_id |-> active_event_id]

(***************************************************************************)
(* ChainVerifier: verify_chain (lines 137-236).                            *)
(***************************************************************************)
\* Deterministic ordering by recorded_at then event_id (lines 148-149).
event_key(evt) == <<StrGet(evt, "recorded_at"), StrGet(evt, "event_id")>>

\* Python's tuple comparison k1 < k2 on the two-string sort keys
KeyLess(k1, k2) == StrLess(k1[1], k2[1]) \/ (k1[1] = k2[1] /\ StrLess(k1[2], k2[2]))

\* One insertion of a stable sort: evt goes behind every element whose key is
\* not greater than its own.
RECURSIVE InsertByKey(_, _)
InsertByKey(sortedEvents, evt) ==
    IF sortedEvents = <<>> THEN <<evt>>
    ELSE IF KeyLess(event_key(evt), event_key(Head(sortedEvents)))
         THEN <<evt>> \o sortedEvents
         ELSE <<Head(sortedEvents)>> \o InsertByKey(Tail(sortedEvents), evt)

\* sorted(events, key=event_key) (line 151): Python's sort is stable.
RECURSIVE SortedByKey(_)
SortedByKey(events) ==
    IF events = <<>> THEN <<>>
    ELSE InsertByKey(SortedByKey(SubSeq(events, 1, Len(events) - 1)), events[Len(events)])

\* The policy flags read at lines 155-158: bool(policy.get(name)) of a policy
\* object whose flags are JSON booleans, {} when "policy" is no object.
PolicyOf(domain_doc) ==
    IF "policy" \in DOMAIN domain_doc /\ IsDict(domain_doc.policy) THEN domain_doc.policy
    ELSE [unset |-> TRUE]

PolicyFlag(domain_doc, name) ==
    LET policy == PolicyOf(domain_doc)
    IN name \in DOMAIN policy /\ policy[name] = TRUE

\* dict.get(name) is truthy: the key is present with a non-empty string.
Truthy(d, name) == name \in DOMAIN d /\ d[name] # <<>>

\* evt.get(key) if isinstance(evt.get(key), dict) else {} (lines 196-198)
DictOf(evt, key) == IF key \in DOMAIN evt /\ IsDict(evt[key]) THEN evt[key] ELSE [unset |-> TRUE]

IsFullPayload(evt) == {"issuer", "canonicalization", "artifact"} \subseteq DOMAIN evt

IsAttestation(evt) == StrGet(evt, "event_type") \in ATTESTATION_EVENTS

\* The timestamp resolution with the test of recorded_at left out.
ResolveActive_effective_only(evt, evaluated_at) ==
    IF ~(Truthy(evt, "effective_at") /\ Truthy(evt, "recorded_at"))
    THEN [raised |-> FALSE, err |-> <<>>, active |-> FALSE]
    ELSE LET eff == parse_utc_or_die(evt.effective_at)
             rec == parse_utc_or_die(evt.recorded_at)
         IN IF ~eff.ok THEN [raised |-> TRUE, err |-> eff.err, active |-> FALSE]
            ELSE IF ~(eff.t <= evaluated_at)
                 THEN [raised |-> FALSE, err |-> <<>>, active |-> FALSE]
            ELSE IF ~rec.ok THEN [raised |-> TRUE, err |-> rec.err, active |-> FALSE]
            ELSE [raised |-> FALSE, err |-> <<>>, active |-> TRUE]

\* Lines 223-230: [raised, err, active] of the timestamp resolution of one
\* event. parse_utc_or_die(recorded_at) runs only if effective_at parsed and
\* is not after evaluated_at (the "and" short-circuits).
ResolveActive(evt, evaluated_at) ==
    IF ~(Truthy(evt, "effective_at") /\ Truthy(evt, "recorded_at"))
    THEN [raised |-> FALSE, err |-> <<>>, active |-> FALSE]
    ELSE LET eff == parse_utc_or_die(evt.effective_at)
             rec == parse_utc_or_die(evt.recorded_at)
         IN IF ~eff.ok THEN [raised |-> TRUE, err |-> eff.err, active |-> FALSE]
            ELSE IF ~(eff.t <= evaluated_at)
                 THEN [raised |-> FALSE, err |-> <<>>, active |-> FALSE]
            ELSE IF ~rec.ok THEN [raised |-> TRUE, err |-> rec.err, active |-> FALSE]
            ELSE [raised |-> FALSE, err |-> <<>>, active |-> rec.t <= evaluated_at]

\* Lines 170-183: the genesis and linkage check of the event at index.
LinkageOk(index, prev_event_hash, prev_hash) ==
    IF index = 0
    THEN prev_event_hash \in {None, Some(<<>>), Some(<<"null">>)}
    ELSE prev_event_hash = Some(prev_hash)

\* Lines 200-217: the first policy requirement the attestation event misses,
\* <<>> when it misses none.
MissingEvidence(domain_doc, evt) ==
    IF PolicyFlag(domain_doc, "signature_required")
       /\ ~Truthy(DictOf(evt, "signature"), "value")
    THEN <<"signature missing for required event ">>
    ELSE IF PolicyFlag(domain_doc, "timestamp_required")
            /\ ~Truthy(DictOf(evt, "timestamp"), "value")
    THEN <<"timestamp missing for required event ">>
    ELSE IF PolicyFlag(domain_doc, "transparency_anchoring_required")
            /\ ~Truthy(DictOf(evt, "transparency"), "entry_id")
    THEN <<"transparency proof missing for required event ">>
    ELSE <<>>

\* Lines 220-221: the diagnostic a present but unverified signature adds.
SignatureDiagnostic(domain_doc, evt, event_id) ==
    IF PolicyFlag(domain_doc, "signature_required")
       /\ Truthy(DictOf(evt, "signature"), "value")
    THEN << <<"cryptographic signature verification not implemented for ">> \o event_id >>
    ELSE <<>>

\* Lines 185-221: [fatal, result, errors] of the hash and policy checks of a
\* full-payload event; an event without issuer, canonicalization or artifact
\* skips them all.
PayloadChecks(domain_doc, evt, index, event_id, event_hash) ==
    LET pass(errs) == [fatal |-> FALSE, result |-> None, errors |-> errs]
        stop(verdict, msg) ==
            [fatal |-> TRUE,
             result |-> Some(VerificationResult(verdict, <<msg \o event_id>>, index + 1, None)),
             errors |-> <<>>]
    IN IF ~IsFullPayload(evt) THEN pass(<<>>)
       ELSE IF compute_event_hash(evt) # event_hash
            THEN stop(VERDICT_INVALID_CHAIN, <<"event_hash mismatch at ">>)
       ELSE IF ~IsAttestation(evt) THEN pass(<<>>)
       ELSE IF MissingEvidence(domain_doc, evt) # <<>>
            THEN stop(VERDICT_POLICY_VIOLATION, MissingEvidence(domain_doc, evt))
       ELSE pass(SignatureDiagnostic(domain_doc, evt, event_id))

\* The state the loop of lines 160-232 carries from one event to the next.
WalkStart == [ret |-> None, prev_hash |-> <<>>, active_event_id |-> None, errors |-> <<>>]

\* The iteration with the timestamps resolved before the hash and policy
\* checks.
CheckEvent_timestamps_first(domain_doc, evaluated_at, w, index, evt) ==
    LET event_id == Strip(StrGet(evt, "event_id"))
        event_hash == Strip(StrGet(evt, "event_hash"))
        prev_event_hash == Get(evt, "prev_event_hash")
        payload == PayloadChecks(domain_doc, evt, index, event_id, event_hash)
        resolved == ResolveActive(evt, evaluated_at)
        return(result) == [w EXCEPT !.ret = Some(result)]
    IN IF event_id = <<>> \/ event_hash = <<>>
       THEN return(VerificationResult(VERDICT_INVALID_CHAIN,
                       << <<"event_id or event_hash missing">> >>, index, None))
       ELSE IF ~LinkageOk(index, prev_event_hash, w.prev_hash)
       THEN return(VerificationResult(VERDICT_INVALID_CHAIN,
                       << (IF index = 0
                           THEN <<"genesis event ">> \o event_id
                                    \o <<" has non-null prev_event_hash">>
                           ELSE <<"prev_event_hash mismatch at ">> \o event_id) >>,
                       index + 1, None))
       ELSE IF resolved.raised
       THEN return(VerificationResult(VERDICT_INVALID_INPUT, <<resolved.err>>, index + 1, None))
       ELSE IF payload.fatal THEN [w EXCEPT !.ret = payload.result]
       ELSE [ret |-> None,
             prev_hash |-> event_hash,
             active_event_id |-> IF resolved.active THEN Some(event_id) ELSE w.active_event_id,
             errors |-> w.errors \o payload.errors]

\* One iteration of the loop (lines 160-232) on the event evt at index: ret
\* is the VerificationResult it returns, None when the walk goes on.
CheckEvent(domain_doc, evaluated_at, w, index, evt) ==
    LET event_id == Strip(StrGet(evt, "event_id"))
        event_hash == Strip(StrGet(evt, "event_hash"))
        prev_event_hash == Get(evt, "prev_event_hash")
        payload == PayloadChecks(domain_doc, evt, index, event_id, event_hash)
        resolved == ResolveActive(evt, evaluated_at)
        return(result) == [w EXCEPT !.ret = Some(result)]
    IN IF event_id = <<>> \/ event_hash = <<>>
       THEN return(VerificationResult(VERDICT_INVALID_CHAIN,
                       << <<"event_id or event_hash missing">> >>, index, None))
       ELSE IF ~LinkageOk(index, prev_event_hash, w.prev_hash)
       THEN return(VerificationResult(VERDICT_INVALID_CHAIN,
                       << (IF index = 0
                           THEN <<"genesis event ">> \o event_id
                                    \o <<" has non-null prev_event_hash">>
                           ELSE <<"prev_event_hash mismatch at ">> \o event_id) >>,
                       index + 1, None))
       ELSE IF payload.fatal THEN [w EXCEPT !.ret = payload.result]
       ELSE IF resolved.raised
       THEN return(VerificationResult(VERDICT_INVALID_INPUT, <<resolved.err>>, index + 1, None))
       ELSE [ret |-> None,
             prev_hash |-> event_hash,
             active_event_id |-> IF resolved.active THEN Some(event_id) ELSE w.active_event_id,
             errors |-> w.errors \o payload.errors]

\* Lines 234-236: the result of a walk that met no fatal check.
WalkResult(w, ordered) ==
    IF w.errors # <<>>
    THEN VerificationResult(VERDICT_UNVERIFIABLE, w.errors, Len(ordered), w.active_event_id)
    ELSE VerificationResult(VERDICT_VERIFIED, <<>>, Len(ordered), w.active_event_id)

\* Lines 142-158, up to the loop: what verify_chain does before the first
\* event. chain_doc.get, the sort key and domain_doc.get raise AttributeError
\* on a value that is no object.
ChainEntry(domain_doc, chain_doc) ==
    LET events == Get(chain_doc, "events")
        fail(exc) == [raised |-> exc, ret |-> None, ordered |-> <<>>]
    IN IF ~IsDict(chain_doc) THEN fail("AttributeError")
       ELSE IF events = None \/ ~IsList(events[1]) \/ events[1].items = <<>>
       THEN [raised |-> "", ordered |-> <<>>,
             ret |-> Some(VerificationResult(VERDICT_INVALID_CHAIN,
                          << <<"events array missing or empty">> >>, 0, None))]
       ELSE IF \E i \in 1..Len(events[1].items) : ~IsDict(events[1].items[i])
       THEN fail("AttributeError")
       ELSE IF ~IsDict(domain_doc) THEN fail("AttributeError")
       ELSE [raised |-> "", ret |-> None, ordered |-> SortedByKey(events[1].items)]

\* The loop run to its end from index i: the walk state at the return.
RECURSIVE WalkFrom(_, _, _, _, _)
WalkFrom(domain_doc, evaluated_at, ordered, i, w) ==
    IF i >= Len(ordered) \/ w.ret # None THEN w
    ELSE WalkFrom(domain_doc, evaluated_at, ordered, i + 1,
                  CheckEvent(domain_doc, evaluated_at, w, i, ordered[i + 1]))

\* verify_chain as a function of its arguments: [raised, ret].
verify_chain(domain_doc, chain_doc, evaluated_at) ==
    LET entry == ChainEntry(domain_doc, chain_doc)
        w == WalkFrom(domain_doc, evaluated_at, entry.ordered, 0, WalkStart)
    IN IF entry.raised # "" \/ entry.ret # None
       THEN [raised |-> entry.raised, ret |-> entry.ret]
       ELSE [raised |-> "",
             ret |-> IF w.ret # None THEN w.ret ELSE Some(WalkResult(w, entry.ordered))]

(***************************************************************************)
(* DiscoveryClient: verify_remote_artifact (lines 239-296).                *)
(* fetch_json (lines 103-109) either returns the JSON value of the body or *)
(* raises; a response of the network is [failure, body], failure the       *)
(* exception fetch_json raises, "" when it returns body.                   *)
(***************************************************************************)
Answered(body) == [failure |-> "", body |-> body]

Failed(failure) == [failure |-> failure]

\* urllib.error.HTTPError with its code, URLError, the timeout of urlopen,
\* and the ValueError of json.loads on a body that is no JSON.
FetchFailures == {"HTTP 404", "HTTP 500", "URLError", "TimeoutError", "JSONDecodeError"}

IsHTTPError(failure) == failure \in {"HTTP 404", "HTTP 500"}

\* A result with the default checked_events and active_event_id.
Verdict0(verdict, error) == VerificationResult(verdict, <<error>>, 0, None)

\* Lines 241-242
well_known_url(canonical_url) ==
    <<"https", ":", "//">> \o urlsplit(canonical_url).netloc
        \o <<"/", ".well-known", "/", "provenance">>

\* Every HTTP error of the policy fetch taken for "no policy declared".
PolicyFetchFailure_any_http_error(failure, canonical_url) ==
    IF IsHTTPError(failure)
    THEN Verdict0(VERDICT_UNDECLARED, <<"missing ">> \o well_known_url(canonical_url))
    ELSE Verdict0(VERDICT_UNVERIFIABLE, <<"domain policy fetch failed: ", failure>>)

\* Lines 246-251: the result of a policy fetch that raised; the name of the
\* failure stands for the text of the exception.
PolicyFetchFailure(failure, canonical_url) ==
    IF IsHTTPError(failure)
    THEN IF failure = "HTTP 404"
         THEN Verdict0(VERDICT_UNDECLARED, <<"missing ">> \o well_known_url(canonical_url))
         ELSE Verdict0(VERDICT_UNVERIFIABLE, <<"domain policy fetch failed: ", failure>>)
    ELSE Verdict0(VERDICT_UNVERIFIABLE, <<"domain policy fetch failed: ", failure>>)

\* str.startswith(prefix)
StartsWith(s, prefix) == Len(s) >= Len(prefix) /\ SubSeq(s, 1, Len(prefix)) = prefix

\* isinstance(v, str) of a JSON value that may be a string or not: such
\* values are written JsonText(s) when they are strings.
IsStr(v) == ~IsDict(v) /\ v.json_type = "string"

\* Line 253: str(domain_doc.get("spec_version", "1.0"))
SpecVersion(domain_doc) ==
    IF "spec_version" \in DOMAIN domain_doc THEN domain_doc.spec_version ELSE <<"1.0">>

\* The condition of line 254 without its spec_version test.
UsesEventFeed_any_version(domain_doc) ==
    /\ "evidence_api" \in DOMAIN domain_doc
    /\ IsDict(domain_doc.evidence_api)

\* The condition of line 254
UsesEventFeed(domain_doc) ==
    /\ StartsWith(SpecVersion(domain_doc), <<"1.1">>)
    /\ "evidence_api" \in DOMAIN domain_doc
    /\ IsDict(domain_doc.evidence_api)

\* The negation of the condition of line 256: the template is a string with
\* the placeholder in it.
TemplateOk(domain_doc) ==
    LET template == Get(domain_doc.evidence_api, "events_by_artifact")
    IN /\ template # None
       /\ IsStr(template[1])
       /\ \E i \in 1..Len(template[1].text) : template[1].text[i] = "{artifact_url}"

\* Line 258: the template with the quoted canonical URL in the place of the
\* placeholder.
RECURSIVE Replace(_, _, _)
Replace(text, old, new) ==
    IF text = <<>> THEN <<>>
    ELSE (IF Head(text) = old THEN new ELSE <<Head(text)>>) \o Replace(Tail(text), old, new)

events_url(domain_doc, canonical_url) ==
    Replace(domain_doc.evidence_api.events_by_artifact.text, "{artifact_url}",
            quote(canonical_url))

\* Lines 269-273
manifest_url(domain_doc, canonical_url) ==
    LET artifact_discovery == Get(domain_doc, "artifact_discovery")
        declared == /\ artifact_discovery # None
                    /\ IsDict(artifact_discovery[1])
                    /\ "suffix" \in DOMAIN artifact_discovery[1]
                    /\ IsStr(artifact_discovery[1].suffix)
    IN canonical_url \o (IF declared THEN artifact_discovery[1].suffix.text
                         ELSE <<".provenance.json">>)

\* Lines 253-258 and 268-273: what verify_remote_artifact does with the
\* policy document it fetched, up to the next fetch. next is the fetch it
\* goes on to ("events", "manifest") or "" when the call ends here.
Discovery(domain_doc, canonical_url) ==
    IF ~IsDict(domain_doc)
    THEN [raised |-> "AttributeError", ret |-> None, next |-> "", fetch_url |-> <<>>]
    ELSE IF UsesEventFeed(domain_doc)
    THEN IF ~TemplateOk(domain_doc)
         THEN [raised |-> "", next |-> "", fetch_url |-> <<>>,
               ret |-> Some(Verdict0(VERDICT_UNVERIFIABLE,
                                     <<"events_by_artifact URL template missing">>))]
         ELSE [raised |-> "", ret |-> None, next |-> "events",
               fetch_url |-> events_url(domain_doc, canonical_url)]
    ELSE [raised |-> "", ret |-> None, next |-> "manifest",
          fetch_url |-> manifest_url(domain_doc, canonical_url)]

\* Lines 264-265
WrapEvents(chain_doc) ==
    IF IsList(chain_doc) THEN [events |-> chain_doc] ELSE chain_doc

\* The 64 lowercase hex digits the manifests of the model declare.
Sha256Literal == "9f86d081884c7d659a2feaa0c55ad015a3bf4f1b2b0b822cd15d6c15b0f00a08"

\* re.fullmatch(r"[0-9a-f]{64}", text) on the texts of the model.
IsLowerHex64(text) == text = <<Sha256Literal>>

\* The manifest checks with the signature policy left out.
LegacyVerdict_unsigned(domain_doc, manifest, canonical_url) ==
    LET declared == canonicalize_artifact_url(StrGet(manifest, "artifact_url"))
        content_hash == Strip(StrGet(manifest, "content_sha256"))
        return(result) == [raised |-> "", ret |-> Some(result)]
    IN IF ~IsDict(manifest) THEN [raised |-> "AttributeError", ret |-> None]
       ELSE IF declared.raised # "" THEN [raised |-> declared.raised, ret |-> None]
       ELSE IF declared.url # canonical_url
       THEN return(Verdict0(VERDICT_INVALID_INPUT, <<"manifest artifact_url mismatch">>))
       ELSE IF ~IsLowerHex64(content_hash)
       THEN return(Verdict0(VERDICT_INVALID_INPUT,
                            <<"manifest content_sha256 is not valid hex sha256">>))
       ELSE return(VerificationResult(VERDICT_VERIFIED, <<>>, 0, None))

\* Lines 279-296: the checks of the legacy manifest, [raised, ret].
LegacyVerdict(domain_doc, manifest, canonical_url) ==
    LET declared == canonicalize_artifact_url(StrGet(manifest, "artifact_url"))
        content_hash == Strip(StrGet(manifest, "content_sha256"))
        signature_required == PolicyFlag(domain_doc, "signature_required")
        signature == DictOf(manifest, "signature")
        return(result) == [raised |-> "", ret |-> Some(result)]
    IN IF ~IsDict(manifest) THEN [raised |-> "AttributeError", ret |-> None]
       ELSE IF declared.raised # "" THEN [raised |-> declared.raised, ret |-> None]
       ELSE IF declared.url # canonical_url
       THEN return(Verdict0(VERDICT_INVALID_INPUT, <<"manifest artifact_url mismatch">>))
       ELSE IF ~IsLowerHex64(content_hash)
       THEN return(Verdict0(VERDICT_INVALID_INPUT,
                            <<"manifest content_sha256 is not valid hex sha256">>))
       ELSE IF signature_required /\ ~Truthy(signature, "value")
       THEN return(Verdict0(VERDICT_POLICY_VIOLATION, <<"signature required but missing">>))
       ELSE IF signature_required
       THEN return(Verdict0(VERDICT_UNVERIFIABLE,
                <<"cryptographic signature verification is not implemented for v1.0 projection manifests">>))
       ELSE return(VerificationResult(VERDICT_VERIFIED, <<>>, 0, None))

(***************************************************************************)
(* The CLI: json_load_file, run_vectors and the exit status of main.       *)
(* A path is modelled by what the file system holds at it.                 *)
(***************************************************************************)
FileHolding(value) == [found |-> TRUE, json |-> value]

NoFile == [found |-> FALSE]

\* Lines 98-100: the value parsed from the file, or the exception of open().
json_load_file(path) ==
    IF path.found THEN [raised |-> "", value |-> path.json]
    ELSE [raised |-> "FileNotFoundError", value |-> JsonArray(<<>>)]

\* Lines 304-313, 317-324 and 328-330: the failures one case appends.
CaseFailure(suite, case) ==
    CASE suite = "json_canonicalization" ->
            IF canonical_json_bytes(case.input) # case.expected_canonical_json
            THEN <<case.id \o <<": canonical JSON mismatch">>>>
            ELSE IF sha256_hex(canonical_json_bytes(case.input)) # case.expected_sha256
            THEN <<case.id \o <<": sha256 mismatch">>>>
            ELSE <<>>
      [] suite = "url_canonicalization" ->
            IF canonicalize_artifact_url(case.input).raised # ""
            THEN <<case.id \o <<": canonicalization raised">>>>
            ELSE IF canonicalize_artifact_url(case.input).url # case.expected
            THEN <<case.id \o <<": URL canonicalization mismatch">>>>
            ELSE <<>>
      [] OTHER ->
            IF compute_event_hash(case.input) # case.expected_event_hash
            THEN <<case.id \o <<": event hash mismatch">>>>
            ELSE <<>>

\* vectors.get(suite, [])
SuiteCases(vectors, suite) == IF suite \in DOMAIN vectors THEN vectors[suite].items ELSE <<>>

RECURSIVE SuiteFailures(_, _)
SuiteFailures(suite, cases) ==
    IF cases = <<>> THEN <<>>
    ELSE CaseFailure(suite, Head(cases)) \o SuiteFailures(suite, Tail(cases))

\* The failures list of run_vectors after its three loops.
VectorFailures(vectors) ==
    SuiteFailures("json_canonicalization", SuiteCases(vectors, "json_canonicalization"))
    \o SuiteFailures("url_canonicalization", SuiteCases(vectors, "url_canonicalization"))
    \o SuiteFailures("event_hash", SuiteCases(vectors, "event_hash"))

\* Line 329: compute_event_hash pops event_hash, which a str does not have.
HashInputRaises(vectors) ==
    \E i \in 1..Len(SuiteCases(vectors, "event_hash")) :
        ~IsDict(SuiteCases(vectors, "event_hash")[i].input)

\* run_vectors with line 334 returning 2.
run_vectors_failing_as_two(path) ==
    IF json_load_file(path).raised # ""
    THEN [raised |-> json_load_file(path).raised, ret |-> None]
    ELSE IF ~IsDict(json_load_file(path).value) \/ HashInputRaises(json_load_file(path).value)
    THEN [raised |-> "AttributeError", ret |-> None]
    ELSE IF VectorFailures(json_load_file(path).value) # <<>>
    THEN [raised |-> "", ret |-> Some(2)]
    ELSE [raised |-> "", ret |-> Some(0)]

\* Lines 299-335: the value run_vectors returns, or the exception that leaves it.
run_vectors(path) ==
    IF json_load_file(path).raised # ""
    THEN [raised |-> json_load_file(path).raised, ret |-> None]
    ELSE IF ~IsDict(json_load_file(path).value) \/ HashInputRaises(json_load_file(path).value)
    THEN [raised |-> "AttributeError", ret |-> None]
    ELSE IF VectorFailures(json_load_file(path).value) # <<>>
    THEN [raised |-> "", ret |-> Some(1)]
    ELSE [raised |-> "", ret |-> Some(0)]

\* Line 381: return 0 if result.verdict == VERDICT_VERIFIED else 2
ExitStatus(res) == IF res.verdict = VERDICT_VERIFIED THEN 0 ELSE 2

\* Lines 369-372 of main for verify-url: the exception that leaves main
\* before verify_remote_artifact is called, "" if none does.
VerifyUrlArgs(args) ==
    IF ~parse_utc_or_die(args.evaluated_at).ok THEN "ValueError"
    ELSE canonicalize_artifact_url(args.artifact_url).raised

\* Lines 369 and 375-377 of main for verify-chain.
VerifyChainArgs(args) ==
    IF ~parse_utc_or_die(args.evaluated_at).ok THEN "ValueError"
    ELSE IF json_load_file(args.domain_doc).raised # ""
    THEN json_load_file(args.domain_doc).raised
    ELSE IF json_load_file(args.chain_doc).raised # ""
    THEN json_load_file(args.chain_doc).raised
    ELSE IF ~IsDict(json_load_file(args.chain_doc).value) THEN "AttributeError"
    ELSE ""

(***************************************************************************)
(* The inputs of the model. An event is built from a blueprint: the values *)
(* of its fields, how its prev_event_hash is chosen (link) and how its     *)
(* declared event_hash is (hash). The events of a chain are built in array *)
(* order, each able to link to the one built before it.                    *)
(***************************************************************************)
MaxEvents == 2

T1 == <<"2024-01-01T00:00:00Z">>

T2 == <<"2024-01-02T00:00:00Z">>

T3 == <<"2024-01-03T00:00:00Z">>

TOffset == <<"2024-01-01T23:00:00-05:00">>

TNaive == <<"2024-01-01T00:00:00">>

TBad == <<"not-a-timestamp">>

\* The event_id and recorded_at an honest issuer gives its k-th event.
IdAt(k) == IF k = 1 THEN <<"a">> ELSE IF k = 2 THEN <<"b">> ELSE <<"c">>

TimeAt(k) == IF k = 1 THEN T1 ELSE IF k = 2 THEN T2 ELSE T3

BogusHash == <<"sha256", "bogus">>

EmptyDict == <<>>

PutOpt(d, key, opt) == IF opt = None THEN d ELSE Put(d, key, opt[1])

\* The fields of a blueprint other than the two hashes.
EventBody(bp) ==
    LET e1 == PutOpt(EmptyDict, "event_id", bp.id)
        e2 == PutOpt(e1, "recorded_at", bp.rec)
        e3 == PutOpt(e2, "effective_at", bp.eff)
        e4 == PutOpt(e3, "event_type", bp.type)
        e5 == PutOpt(e4, "signature", bp.sig)
        e6 == PutOpt(e5, "timestamp", bp.ts)
        e7 == PutOpt(e6, "transparency", bp.tr)
        e8 == IF bp.payload \in {"full", "partial"} THEN Put(e7, "issuer", <<"issuer-1">>) ELSE e7
        e9 == IF bp.payload = "full"
              THEN Put(Put(e8, "canonicalization", <<"c14n-1">>), "artifact", <<"artifact-1">>)
              ELSE e8
    IN e9

\* The event of blueprint bp, built behind the events in built.
BuildEvent(bp, built) ==
    LET before == IF built = <<>> THEN None ELSE Get(built[Len(built)], "event_hash")
        link == CASE bp.link = "prev" -> before
                  [] bp.link = "stripped" ->
                        IF before = None THEN None ELSE Some(Strip(before[1]))
                  [] bp.link = "empty" -> Some(<<>>)
                  [] bp.link = "null" -> Some(<<"null">>)
                  [] bp.link = "bogus" -> Some(BogusHash)
                  [] OTHER -> None
        linked == PutOpt(EventBody(bp), "prev_event_hash", link)
        digest == compute_event_hash(linked)
    IN CASE bp.hash = "ok" -> Put(linked, "event_hash", digest)
         [] bp.hash = "padded" -> Put(linked, "event_hash", <<" ">> \o digest)
         [] bp.hash = "wrong" -> Put(linked, "event_hash", BogusHash)
         [] OTHER -> linked

RECURSIVE BuildChain(_)
BuildChain(bps) ==
    IF bps = <<>> THEN <<>>
    ELSE LET built == BuildChain(SubSeq(bps, 1, Len(bps) - 1))
         IN Append(built, BuildEvent(bps[Len(bps)], built))

\* The k-th event of an honest chain of light events.
Plain(k) ==
    [id |-> Some(IdAt(k)), rec |-> Some(TimeAt(k)), eff |-> None, type |-> Some(<<"NOTE">>),
     sig |-> None, ts |-> None, tr |-> None, payload |-> "light",
     link |-> IF k = 1 THEN "absent" ELSE "prev", hash |-> "ok"]

\* Order and linkage: ids and recorded_at that may tie or invert, every way
\* of linking, declared hashes with and without surrounding whitespace.
LinkBlueprints(k) ==
    {[Plain(k) EXCEPT !.id = Some(i), !.rec = Some(r), !.link = l, !.hash = h] :
        i \in {<<"a">>, <<"b">>}, r \in {T1, T2},
        l \in {"absent", "prev", "null", "bogus"}, h \in {"ok", "padded"}}

\* Full-payload events: the hash is recomputed.
FullBlueprints(k) ==
    {[Plain(k) EXCEPT !.payload = "full", !.type = Some(t), !.sig = s, !.link = l, !.hash = h] :
        t \in {<<"NOTE">>, <<"ATTESTATION_ISSUED">>},
        s \in {None, Some([value |-> <<"sig-1">>])},
        l \in {"absent", "prev", "stripped"}, h \in {"ok", "padded", "wrong"}}

\* Policy: every combination of payload, event type and evidence.
PolicyBlueprints(k) ==
    {[Plain(k) EXCEPT !.payload = p, !.type = t, !.sig = s, !.ts = ts, !.tr = tr] :
        p \in {"light", "partial", "full"},
        t \in {Some(<<"NOTE">>), Some(<<"ATTESTATION_ISSUED">>),
               Some(<<"ATTESTATION_SUPERSEDED">>)},
        s \in {None, Some([value |-> <<"sig-1">>]), Some([value |-> <<>>])},
        ts \in {None, Some([value |-> <<"tst-1">>])},
        tr \in {None, Some([entry_id |-> <<"log-1">>])}}

\* The events around the one PolicyBlueprints varies: a light note, or a full
\* attestation that carries every kind of evidence.
EvidencedBlueprints(k) ==
    {Plain(k),
     [Plain(k) EXCEPT !.payload = "full", !.type = Some(<<"ATTESTATION_ISSUED">>),
                      !.sig = Some([value |-> <<"sig-1">>]),
                      !.ts = Some([value |-> <<"tst-1">>]),
                      !.tr = Some([entry_id |-> <<"log-1">>])]}

\* Temporal resolution: effective_at before, at and after the evaluation
\* time or malformed, recorded_at in and out of step with its instant, ids
\* with surrounding whitespace.
ActiveBlueprints(k) ==
    {[Plain(k) EXCEPT !.id = Some(i), !.rec = Some(r), !.eff = e] :
        i \in {IdAt(k), <<" ">> \o IdAt(k)},
        r \in {TimeAt(k), TOffset},
        e \in {None, Some(T1), Some(T2), Some(T3), Some(TBad)}}

\* Timestamps well-formed and malformed: recorded_at as the issuer gives it,
\* no timestamp at all or one without a timezone; effective_at absent, before
\* or at the evaluation time, after it, or malformed in either way.
TimestampBlueprints(k) ==
    {[Plain(k) EXCEPT !.rec = Some(r), !.eff = e] :
        r \in {TimeAt(k), TBad, TNaive},
        e \in {None, Some(T1), Some(T3), Some(TBad), Some(TNaive)}}

\* Precedence: a full-payload attestation that passes or fails the linkage,
\* hash, policy and timestamp checks in every combination, and one without
\* event_id that fails them all. A signature that is present earns the
\* non-fatal diagnostic of line 221 under a policy that requires one.
PrecedenceBlueprints(k) ==
    {[Plain(k) EXCEPT !.payload = "full", !.type = Some(<<"ATTESTATION_ISSUED">>),
                      !.link = l, !.hash = h, !.sig = s, !.eff = e] :
        l \in {Plain(k).link, "bogus"}, h \in {"ok", "wrong"},
        s \in {None, Some([value |-> <<"sig-1">>])}, e \in {None, Some(TBad)}}
    \cup {[Plain(k) EXCEPT !.payload = "full", !.type = Some(<<"ATTESTATION_ISSUED">>),
                           !.id = None, !.link = "bogus", !.hash = "wrong",
                           !.eff = Some(TBad)]}

PolicyDoc(sig, ts, tr) ==
    [spec_version |-> <<"1.1">>,
     policy |-> [signature_required |-> sig, timestamp_required |-> ts,
                 transparency_anchoring_required |-> tr]]

ChainDoc(events) == [events |-> JsonArray(events)]

\* The documents and URLs of the calls of verify_remote_artifact.
CanonicalUrl == <<"https", ":", "//", "example.com", "/", "a">>

OtherUrl == <<"https", ":", "//", "example.com", "/", "b">>

NoSchemeUrl == <<"example.com", "/", "a">>

\* The URLs verify_remote_artifact is called with: canonical, the same
\* artifact spelled otherwise, one with user info, port, dot segments, query
\* and fragment, and four that are not absolute URLs with a host and a port.
RequestUrls ==
    {CanonicalUrl,
     <<"HTTPS", ":", "//", "Example.COM", ":", "443", "/", "x", "/", "..", "/", "a">>,
     <<"http", ":", "//", "user", ":", "pw", "@", "example.com", ":", "8080",
       "/", "a", "/", ".", "/", "b", "/", "?", "q", "=", "%3a", "#", "frag">>,
     NoSchemeUrl,
     <<"https", ":", "//", "/", "a">>,
     <<"https", ":", "//", "user", "@", "/", "a">>,
     <<"https", ":", "//", "example.com", ":", "abc", "/", "a">>}

Template ==
    <<"https", ":", "//", "api.example.com", "/", "events", "?", "artifact", "=",
      "{artifact_url}">>

\* What a policy document may declare under evidence_api: a template, a
\* template without the placeholder, one that is no string, an object without
\* a template, and a value that is no object.
EvidenceApis ==
    {[events_by_artifact |-> JsonText(Template)],
     [events_by_artifact |-> JsonText(<<"https", ":", "//", "api.example.com", "/", "events">>)],
     [events_by_artifact |-> JsonArray(<<>>)],
     [docs |-> JsonText(<<"https", ":", "//", "example.com", "/", "docs">>)],
     JsonText(<<"api">>)}

\* What it may declare under artifact_discovery.
ArtifactDiscoveries ==
    {None, Some([suffix |-> JsonText(<<".prov">>)]), Some([suffix |-> JsonArray(<<>>)]),
     Some(JsonText(<<"none">>))}

\* The bodies the policy fetch may return.
PolicyDocuments ==
    {[spec_version |-> v, evidence_api |-> api, policy |-> [signature_required |-> sig]] :
        v \in {<<"1.1">>, <<"1.1", ".2">>, <<"1.0">>, <<"2.0">>},
        api \in EvidenceApis, sig \in BOOLEAN}
    \cup {PutOpt([spec_version |-> <<"1.0">>, policy |-> [signature_required |-> sig]],
                 "artifact_discovery", d) : sig \in BOOLEAN, d \in ArtifactDiscoveries}
    \cup {[policy |-> [signature_required |-> TRUE]], [spec_version |-> <<"1.1">>],
          JsonArray(<<>>), JsonText(<<"policy">>)}

\* The bodies the event feed may return: a bare array, the {events: [...]}
\* wrapper, chains that fail, and bodies that are no chain.
FeedDocuments ==
    {JsonArray(BuildChain(<<Plain(1)>>)),
     ChainDoc(BuildChain(<<Plain(1), Plain(2)>>)),
     JsonArray(BuildChain(<<[Plain(1) EXCEPT !.payload = "full", !.hash = "wrong"]>>)),
     JsonArray(BuildChain(<<[Plain(1) EXCEPT !.payload = "full",
                                             !.type = Some(<<"ATTESTATION_ISSUED">>),
                                             !.sig = Some([value |-> <<"sig-1">>]),
                                             !.eff = Some(T1)]>>)),
     JsonArray(<<>>),
     JsonArray(<<JsonText(<<"a">>)>>),
     [artifact_url |-> CanonicalUrl],
     JsonText(<<"feed">>)}

\* The bodies the manifest fetch may return for a request of url.
ManifestsFor(url) ==
    {PutOpt(PutOpt(PutOpt([spec_version |-> <<"1.0">>], "artifact_url", a),
                   "content_sha256", h), "signature", s) :
        a \in {None, Some(url), Some(canonicalize_artifact_url(url).url), Some(OtherUrl),
               Some(NoSchemeUrl)},
        h \in {None, Some(<<Sha256Literal>>), Some(<<" ", Sha256Literal, " ">>),
               Some(<<"9F86D081884C7D659A2FEAA0C55AD015A3BF4F1B2B0B822CD15D6C15B0F00A08">>),
               Some(<<"9f86d081">>)},
        s \in {None, Some([value |-> <<"sig-1">>]), Some([value |-> <<>>]),
               Some(JsonText(<<"sig-1">>))}}
    \cup {JsonArray(<<>>)}

\* The URLs canonicalize_artifact_url is called with on its own: every
\* combination of a scheme, user info, a host name or an IPv6 literal, a port,
\* a path with dot segments, doubled slashes and escapes, a query and a
\* fragment, and URLs that lack the scheme or the host.
UrlSchemes == {<<"https", ":">>, <<"HTTP", ":">>, <<"http", ":">>, <<>>}

UrlUserInfos == {<<>>, <<"user", "@">>, <<"user", ":", "pw", "@">>, <<":", "@">>}

UrlHosts ==
    {<<"example.com">>, <<"Example.COM">>, <<"[", ":", ":", "1", "]">>, <<"[", "example.com", "]">>,
     <<>>}

UrlPorts == {<<>>, <<":", "80">>, <<":", "443">>, <<":", "8080">>, <<":", "080">>, <<":">>}

UrlPaths ==
    {<<>>, <<"/">>, <<"/", "a">>, <<"/", "a", "/", "..", "/", "b">>,
     <<"/", "a", "/", ".", "/", "b", "/">>, <<"/", "/", "a">>, <<"/", "..">>,
     <<"/", "a", "%2f", "b">>}

UrlQueries == {<<>>, <<"?", "q", "=", "%3a">>, <<"?">>}

UrlFragments == {<<>>, <<"#", "frag">>}

CodecUrls ==
    {s \o <<"//">> \o u \o h \o p \o path \o q \o f :
        s \in UrlSchemes, u \in UrlUserInfos, h \in UrlHosts, p \in UrlPorts,
        path \in UrlPaths, q \in UrlQueries, f \in UrlFragments}

\* The pairs of events compute_event_hash is called with on its own: an
\* event, and the same event with its event_hash as it is, replaced, empty
\* or absent, or with another recorded_at; in both orders.
HashedEvents == {BuildChain(<<bp>>)[1] : bp \in PolicyBlueprints(1)}

EventVariants(event) ==
    {event, Put(event, "event_hash", BogusHash), Put(event, "event_hash", <<>>),
     Pop(event, "event_hash"), Put(event, "recorded_at", T2)}

EventPairs ==
    UNION {{<<e, v>> : v \in EventVariants(e)} \cup {<<v, e>> : v \in EventVariants(e)} :
              e \in HashedEvents}

\* The conformance vectors given to run-vectors: for each suite no case, a
\* case that passes, cases that fail, a passing case after a failing one.
VectorEvent == BuildChain(<<Plain(1)>>)[1]

JsonCase(text, digest) ==
    [id |-> <<"json-1">>, input |-> VectorEvent,
     expected_canonical_json |-> text, expected_sha256 |-> digest]

JsonCases ==
    LET right == JsonCase(canonical_json_bytes(VectorEvent),
                          sha256_hex(canonical_json_bytes(VectorEvent)))
        wrong_text == JsonCase(<<"{", "}">>, sha256_hex(canonical_json_bytes(VectorEvent)))
        wrong_digest == JsonCase(canonical_json_bytes(VectorEvent), BogusHash)
    IN {<<>>, <<right>>, <<wrong_text>>, <<wrong_digest>>, <<wrong_digest, right>>}

UrlCase(input, expected) == [id |-> <<"url-1">>, input |-> input, expected |-> expected]

UrlCases ==
    {<<>>, <<UrlCase(CanonicalUrl, CanonicalUrl)>>, <<UrlCase(CanonicalUrl, OtherUrl)>>,
     <<UrlCase(NoSchemeUrl, CanonicalUrl)>>,
     <<UrlCase(NoSchemeUrl, CanonicalUrl), UrlCase(CanonicalUrl, CanonicalUrl)>>}

HashCase(input, expected) ==
    [id |-> <<"hash-1">>, input |-> input, expected_event_hash |-> expected]

HashCases ==
    {<<>>, <<HashCase(VectorEvent, VectorEvent.event_hash)>>,
     <<HashCase(VectorEvent, BogusHash)>>,
     <<HashCase(JsonText(<<"event">>), BogusHash)>>}

VectorFiles ==
    {FileHolding([json_canonicalization |-> JsonArray(j), url_canonicalization |-> JsonArray(u),
                  event_hash |-> JsonArray(h)]) :
        j \in JsonCases, u \in UrlCases, h \in HashCases}
    \cup {FileHolding([json_canonicalization |-> JsonArray(j)]) : j \in JsonCases}
    \cup {FileHolding(JsonArray(<<>>)), NoFile}

\* The timestamps given as --evaluated-at.
EvaluatedAtTexts == {T1, T3, TNaive, TBad}

DomainDocFiles ==
    {FileHolding(PolicyDoc(FALSE, FALSE, FALSE)), FileHolding(PolicyDoc(TRUE, FALSE, FALSE)),
     NoFile}

ChainDocFiles ==
    {FileHolding(ChainDoc(BuildChain(<<Plain(1)>>))),
     FileHolding(ChainDoc(BuildChain(<<[Plain(1) EXCEPT !.payload = "full"]>>))),
     FileHolding(ChainDoc(BuildChain(<<[Plain(1) EXCEPT !.rec = Some(TBad), !.eff = Some(T1)]>>))),
     FileHolding(ChainDoc(<<>>)),
     FileHolding(JsonArray(BuildChain(<<Plain(1)>>))),
     NoFile}


(***************************************************************************)
(* State: one call of verify_chain or of verify_remote_artifact, as a      *)
(* library or from a run of the CLI.                                       *)
(*   command        which function the caller calls                        *)
(*   domain_doc, chain_doc, evaluated_at   the arguments of verify_chain   *)
(*   url            the argument of verify_remote_artifact                 *)
(*   canonical_url, manifest   its locals                                  *)
(*   fetches        the fetches issued so far, each with its outcome       *)
(*   pc             the position of the call; "returned" and "raised" are  *)
(*                  kept when main has passed the outcome on as the exit   *)
(*                  status                                                 *)
(*   ordered, index, walk   the locals of verify_chain's loop              *)
(*   result         Optional: the VerificationResult returned              *)
(*   raised         the exception that left the call, "" if none           *)
(*   argv           the arguments of a run of the CLI; unset in a call of  *)
(*                  verify_chain or verify_remote_artifact as a library    *)
(*   exit_code      Optional: the exit status of the process               *)
(***************************************************************************)
VARIABLES command, evaluated_at, domain_doc, chain_doc, pc, ordered, index, walk,
          result, raised, url, canonical_url, fetches, manifest, argv, exit_code

vars == <<command, evaluated_at, domain_doc, chain_doc, pc, ordered, index, walk,
          result, raised, url, canonical_url, fetches, manifest, argv, exit_code>>

NoDoc == [unset |-> TRUE]

\* A call of verify_chain(domain_doc, chain_doc, evaluated_at) about to start.
ChainCall(doc, chain, at) ==
    /\ command = "verify-chain"
    /\ domain_doc = doc
    /\ chain_doc = chain
    /\ evaluated_at = at
    /\ pc = "verify_chain"
    /\ ordered = <<>>
    /\ index = 0
    /\ walk = WalkStart
    /\ result = None
    /\ raised = ""
    /\ argv = NoDoc
    /\ exit_code = None
    /\ url = <<>>
    /\ canonical_url = <<>>
    /\ fetches = <<>>
    /\ manifest = NoDoc

\* The blueprints of the k-th event of a chain of the given family; the
\* family "policy" varies the event at position rich.
Blueprints(family, rich, k) ==
    CASE family = "link" -> LinkBlueprints(k)
      [] family = "full" -> FullBlueprints(k)
      [] family = "active" -> ActiveBlueprints(k)
      [] family = "timestamps" -> TimestampBlueprints(k)
      [] family = "precedence" -> PrecedenceBlueprints(k)
      [] OTHER -> IF k = rich THEN PolicyBlueprints(k) ELSE EvidencedBlueprints(k)

RECURSIVE BlueprintSeqs(_, _, _)
BlueprintSeqs(family, rich, n) ==
    IF n = 0 THEN {<<>>}
    ELSE {Append(bps, bp) : bps \in BlueprintSeqs(family, rich, n - 1),
                            bp \in Blueprints(family, rich, n)}

InitLink ==
    \E n \in 1..MaxEvents :
        \E bps \in BlueprintSeqs("link", 0, n) :
            ChainCall(PolicyDoc(FALSE, FALSE, FALSE), ChainDoc(BuildChain(bps)), 48)

InitFull ==
    \E n \in 1..MaxEvents, sig \in BOOLEAN :
        \E bps \in BlueprintSeqs("full", 0, n) :
            ChainCall(PolicyDoc(sig, FALSE, FALSE), ChainDoc(BuildChain(bps)), 48)

InitPolicy ==
    \E n \in 1..MaxEvents, sig \in BOOLEAN, ts \in BOOLEAN, tr \in BOOLEAN :
        \E rich \in 1..n :
            \E bps \in BlueprintSeqs("policy", rich, n) :
                ChainCall(PolicyDoc(sig, ts, tr), ChainDoc(BuildChain(bps)), 48)

InitActive ==
    \E n \in 1..MaxEvents, at \in {0, 24, 48} :
        \E bps \in BlueprintSeqs("active", 0, n) :
            ChainCall(PolicyDoc(FALSE, FALSE, FALSE), ChainDoc(BuildChain(bps)), at)

InitTimestamps ==
    \E n \in 1..MaxEvents, at \in {0, 48} :
        \E bps \in BlueprintSeqs("timestamps", 0, n) :
            ChainCall(PolicyDoc(FALSE, FALSE, FALSE), ChainDoc(BuildChain(bps)), at)

InitPrecedence ==
    \E n \in 1..MaxEvents :
        \E bps \in BlueprintSeqs("precedence", 0, n) :
            ChainCall(PolicyDoc(TRUE, FALSE, FALSE), ChainDoc(BuildChain(bps)), 48)

\* Documents that are not what verify_chain expects: no object, no events
\* array, an empty one, an event that is no object, no policy object.
InitMalformed ==
    \E doc \in {PolicyDoc(TRUE, FALSE, FALSE), [spec_version |-> <<"1.1">>],
                JsonArray(<<>>), JsonText(<<"policy">>)},
       chain \in {ChainDoc(BuildChain(<<Plain(1)>>)),
                  ChainDoc(<<>>),
                  [artifact_url |-> <<"https://example.com/a">>],
                  ChainDoc(<<JsonText(<<"a">>)>>),
                  ChainDoc(BuildChain(<<Plain(1)>>) \o <<JsonText(<<"a">>)>>),
                  JsonArray(BuildChain(<<Plain(1)>>)),
                  JsonText(<<"chain">>)} :
        ChainCall(doc, chain, 48)

\* A call of verify_remote_artifact(url, timeout, evaluated_at) about to start.
InitRemote ==
    \E u \in RequestUrls :
        /\ command = "verify-url"
        /\ url = u
        /\ evaluated_at = 48
        /\ domain_doc = NoDoc
        /\ chain_doc = NoDoc
        /\ manifest = NoDoc
        /\ canonical_url = <<>>
        /\ fetches = <<>>
        /\ pc = "verify_remote_artifact"
        /\ ordered = <<>>
        /\ index = 0
        /\ walk = WalkStart
        /\ result = None
        /\ raised = ""
        /\ argv = NoDoc
        /\ exit_code = None

\* A run of the CLI with parsed arguments, about to execute line 366.
MainCall(cmd, args) ==
    /\ command = cmd
    /\ argv = args
    /\ exit_code = None
    /\ pc = "main"
    /\ evaluated_at = 0
    /\ domain_doc = NoDoc
    /\ chain_doc = NoDoc
    /\ manifest = NoDoc
    /\ url = <<>>
    /\ canonical_url = <<>>
    /\ fetches = <<>>
    /\ ordered = <<>>
    /\ index = 0
    /\ walk = WalkStart
    /\ result = None
    /\ raised = ""

InitMain ==
    \/ \E v \in VectorFiles : MainCall("run-vectors", [vectors |-> v])
    \/ \E at \in EvaluatedAtTexts, u \in {CanonicalUrl, NoSchemeUrl} :
          MainCall("verify-url", [evaluated_at |-> at, artifact_url |-> u])
    \/ \E at \in EvaluatedAtTexts, d \in DomainDocFiles, c \in ChainDocFiles :
          MainCall("verify-chain", [evaluated_at |-> at, domain_doc |-> d, chain_doc |-> c])

Init ==
    \/ InitLink
    \/ InitFull
    \/ InitPolicy
    \/ InitActive
    \/ InitTimestamps
    \/ InitPrecedence
    \/ InitMalformed
    \/ InitRemote
    \/ InitMain

(***************************************************************************)
(* verify_chain, one action per step of the call.                          *)
(***************************************************************************)
\* Lines 142-158: the events array is read and sorted, the policy is read.
EnterChain ==
    /\ pc = "verify_chain"
    /\ LET entry == ChainEntry(domain_doc, chain_doc)
       IN /\ raised' = entry.raised
          /\ result' = entry.ret
          /\ ordered' = entry.ordered
          /\ pc' = IF entry.raised # "" THEN "raised"
                   ELSE IF entry.ret # None THEN "returned"
                   ELSE "walk"
    /\ UNCHANGED <<command, evaluated_at, domain_doc, chain_doc, index, walk, url,
                   canonical_url, fetches, manifest, argv, exit_code>>

\* Lines 160-232: one iteration of the loop.
WalkEvent ==
    /\ pc = "walk"
    /\ index < Len(ordered)
    /\ LET w == CheckEvent(domain_doc, evaluated_at, walk, index, ordered[index + 1])
       IN /\ walk' = w
          /\ result' = w.ret
          /\ pc' = IF w.ret # None THEN "returned" ELSE "walk"
          /\ index' = IF w.ret # None THEN index ELSE index + 1
    /\ UNCHANGED <<command, evaluated_at, domain_doc, chain_doc, ordered, raised, url,
                   canonical_url, fetches, manifest, argv, exit_code>>

\* Lines 234-236: the loop is over.
FinishWalk ==
    /\ pc = "walk"
    /\ index = Len(ordered)
    /\ result' = Some(WalkResult(walk, ordered))
    /\ pc' = "returned"
    /\ UNCHANGED <<command, evaluated_at, domain_doc, chain_doc, ordered, index, walk, raised,
                   url, canonical_url, fetches, manifest, argv, exit_code>>

(***************************************************************************)
(* verify_remote_artifact, one action per step of the call: the steps end  *)
(* where the call returns, raises or blocks in the next fetch.             *)
(***************************************************************************)
Responses(bodies) == {Failed(f) : f \in FetchFailures} \cup {Answered(b) : b \in bodies}

\* The entry of the fetch log for a response to the fetch of fetch_url.
Fetched(fetch_url, response) ==
    [url |-> fetch_url,
     outcome |-> IF response.failure # "" THEN response.failure ELSE "ok"]

\* Lines 240-242: the request URL is canonicalized.
EnterRemote ==
    /\ pc = "verify_remote_artifact"
    /\ LET canonical == canonicalize_artifact_url(url)
       IN /\ raised' = canonical.raised
          /\ canonical_url' = canonical.url
          /\ pc' = IF canonical.raised # "" THEN "raised" ELSE "fetch_policy"
    /\ UNCHANGED <<command, evaluated_at, domain_doc, chain_doc, ordered, index, walk,
                   result, url, fetches, manifest, argv, exit_code>>

\* Lines 244-257 and 268-273: the policy document is fetched and read.
FetchPolicy ==
    /\ pc = "fetch_policy"
    /\ \E response \in Responses(PolicyDocuments) :
          LET step == IF response.failure # ""
                      THEN [raised |-> "", next |-> "", fetch_url |-> <<>>,
                            ret |-> Some(PolicyFetchFailure(response.failure, canonical_url))]
                      ELSE Discovery(response.body, canonical_url)
          IN /\ fetches' = Append(fetches, Fetched(well_known_url(canonical_url), response))
             /\ domain_doc' = IF response.failure # "" THEN domain_doc ELSE response.body
             /\ raised' = step.raised
             /\ result' = step.ret
             /\ pc' = IF step.raised # "" THEN "raised"
                      ELSE IF step.ret # None THEN "returned"
                      ELSE IF step.next = "events" THEN "fetch_events"
                      ELSE "fetch_manifest"
    /\ UNCHANGED <<command, evaluated_at, chain_doc, ordered, index, walk, url,
                   canonical_url, manifest, argv, exit_code>>

\* Lines 258-266: the event feed is fetched and handed to verify_chain.
FetchEvents ==
    /\ pc = "fetch_events"
    /\ \E response \in Responses(FeedDocuments) :
          /\ fetches' = Append(fetches, Fetched(events_url(domain_doc, canonical_url), response))
          /\ IF response.failure # ""
             THEN /\ result' = Some(Verdict0(VERDICT_UNVERIFIABLE,
                                             <<"events fetch failed: ", response.failure>>))
                  /\ pc' = "returned"
                  /\ chain_doc' = chain_doc
             ELSE /\ result' = result
                  /\ pc' = "verify_chain"
                  /\ chain_doc' = WrapEvents(response.body)
    /\ UNCHANGED <<command, evaluated_at, domain_doc, ordered, index, walk, raised, url,
                   canonical_url, manifest, argv, exit_code>>

\* Lines 273-296: the legacy manifest is fetched and checked.
FetchManifest ==
    /\ pc = "fetch_manifest"
    /\ \E response \in Responses(ManifestsFor(url)) :
          LET checked == LegacyVerdict(domain_doc, response.body, canonical_url)
          IN /\ fetches' = Append(fetches,
                                  Fetched(manifest_url(domain_doc, canonical_url), response))
             /\ IF response.failure # ""
                THEN /\ result' = Some(Verdict0(VERDICT_UNVERIFIABLE,
                                                <<"manifest fetch failed: ", response.failure>>))
                     /\ pc' = "returned"
                     /\ UNCHANGED <<manifest, raised>>
                ELSE /\ manifest' = response.body
                     /\ raised' = checked.raised
                     /\ result' = checked.ret
                     /\ pc' = IF checked.raised # "" THEN "raised" ELSE "returned"
    /\ UNCHANGED <<command, evaluated_at, domain_doc, chain_doc, ordered, index, walk, url,
                   canonical_url, argv, exit_code>>

(***************************************************************************)
(* main, one action per step of a run of the CLI.                          *)
(***************************************************************************)
\* Lines 366-367 and 385: run-vectors runs the vectors and exits with what
\* run_vectors returns.
MainRunVectors ==
    /\ pc = "main"
    /\ command = "run-vectors"
    /\ raised' = run_vectors(argv.vectors).raised
    /\ exit_code' = run_vectors(argv.vectors).ret
    /\ pc' = IF run_vectors(argv.vectors).raised # "" THEN "raised" ELSE "run_vectors_returned"
    /\ UNCHANGED <<command, evaluated_at, domain_doc, chain_doc, ordered, index, walk,
                   result, url, canonical_url, fetches, manifest, argv>>

\* Lines 369-373: verify-url up to the call of verify_remote_artifact.
MainVerifyUrl ==
    /\ pc = "main"
    /\ command = "verify-url"
    /\ raised' = VerifyUrlArgs(argv)
    /\ IF VerifyUrlArgs(argv) # ""
       THEN /\ pc' = "raised"
            /\ UNCHANGED <<evaluated_at, url>>
       ELSE /\ pc' = "verify_remote_artifact"
            /\ evaluated_at' = parse_utc_or_die(argv.evaluated_at).t
            /\ url' = argv.artifact_url
    /\ UNCHANGED <<command, domain_doc, chain_doc, ordered, index, walk, result,
                   canonical_url, fetches, manifest, argv, exit_code>>

\* Lines 369 and 374-378: verify-chain up to the call of verify_chain.
MainVerifyChain ==
    /\ pc = "main"
    /\ command = "verify-chain"
    /\ raised' = VerifyChainArgs(argv)
    /\ IF VerifyChainArgs(argv) # ""
       THEN /\ pc' = "raised"
            /\ UNCHANGED <<evaluated_at, domain_doc, chain_doc>>
       ELSE /\ pc' = "verify_chain"
            /\ evaluated_at' = parse_utc_or_die(argv.evaluated_at).t
            /\ domain_doc' = json_load_file(argv.domain_doc).value
            /\ chain_doc' = json_load_file(argv.chain_doc).value
    /\ UNCHANGED <<command, ordered, index, walk, result, url, canonical_url, fetches,
                   manifest, argv, exit_code>>

\* Lines 380-381 and 385: the result is printed and its verdict decides the
\* exit status.
MainReturn ==
    /\ pc = "returned"
    /\ argv # NoDoc
    /\ exit_code = None
    /\ exit_code' = Some(ExitStatus(result[1]))
    /\ UNCHANGED <<command, evaluated_at, domain_doc, chain_doc, pc, ordered, index, walk,
                   result, raised, url, canonical_url, fetches, manifest, argv>>

\* Line 385: no handler catches an exception that leaves main, and the
\* interpreter ends the process with status 1.
MainUncaught ==
    /\ pc = "raised"
    /\ argv # NoDoc
    /\ exit_code = None
    /\ exit_code' = Some(1)
    /\ UNCHANGED <<command, evaluated_at, domain_doc, chain_doc, pc, ordered, index, walk,
                   result, raised, url, canonical_url, fetches, manifest, argv>>

(***************************************************************************)
(* The codec called on its own: canonicalize_artifact_url on a URL and     *)
(* then on the URL it returned, compute_event_hash on the two events of a  *)
(* pair. index counts the calls made, url and canonical_url are the        *)
(* argument and the value of the last call of canonicalize_artifact_url,   *)
(* ordered holds the events as the calls leave them and result the digests *)
(* returned so far.                                                        *)
(***************************************************************************)
CodecCall(function, u, events) ==
    /\ command = function
    /\ pc = function
    /\ url = u
    /\ ordered = events
    /\ index = 0
    /\ result = <<>>
    /\ raised = ""
    /\ canonical_url = <<>>
    /\ evaluated_at = 0
    /\ domain_doc = NoDoc
    /\ chain_doc = NoDoc
    /\ manifest = NoDoc
    /\ fetches = <<>>
    /\ walk = WalkStart
    /\ argv = NoDoc
    /\ exit_code = None

InitCodec ==
    \/ \E u \in CodecUrls : CodecCall("canonicalize_artifact_url", u, <<>>)
    \/ \E pair \in EventPairs : CodecCall("compute_event_hash", <<>>, pair)

\* canonicalize_artifact_url(url)
Canonicalize ==
    /\ pc = "canonicalize_artifact_url"
    /\ index = 0
    /\ canonical_url' = canonicalize_artifact_url(url).url
    /\ raised' = canonicalize_artifact_url(url).raised
    /\ index' = 1
    /\ pc' = IF canonicalize_artifact_url(url).raised # "" THEN "raised"
             ELSE "canonicalize_artifact_url"
    /\ UNCHANGED <<command, evaluated_at, domain_doc, chain_doc, ordered, walk, result, url,
                   fetches, manifest, argv, exit_code>>

\* canonicalize_artifact_url on the URL the first call returned
Recanonicalize ==
    /\ pc = "canonicalize_artifact_url"
    /\ index = 1
    /\ url' = canonical_url
    /\ canonical_url' = canonicalize_artifact_url(canonical_url).url
    /\ raised' = canonicalize_artifact_url(canonical_url).raised
    /\ index' = 2
    /\ pc' = IF canonicalize_artifact_url(canonical_url).raised # "" THEN "raised"
             ELSE "returned"
    /\ UNCHANGED <<command, evaluated_at, domain_doc, chain_doc, ordered, walk, result,
                   fetches, manifest, argv, exit_code>>

\* compute_event_hash on the next event of the pair
HashEvent ==
    /\ pc = "compute_event_hash"
    /\ index < Len(ordered)
    /\ result' = Append(result, compute_event_hash(ordered[index + 1]))
    /\ ordered' = [ordered EXCEPT ![index + 1] = compute_event_hash_argument(@)]
    /\ index' = index + 1
    /\ pc' = IF index + 1 = Len(ordered) THEN "returned" ELSE "compute_event_hash"
    /\ UNCHANGED <<command, evaluated_at, domain_doc, chain_doc, walk, raised, url,
                   canonical_url, fetches, manifest, argv, exit_code>>

NextCodec ==
    \/ Canonicalize
    \/ Recanonicalize
    \/ HashEvent

SpecCodec == InitCodec /\ [][NextCodec]_vars

Next ==
    \/ EnterChain
    \/ WalkEvent
    \/ FinishWalk
    \/ EnterRemote
    \/ FetchPolicy
    \/ FetchEvents
    \/ FetchManifest
    \/ MainRunVectors
    \/ MainVerifyUrl
    \/ MainVerifyChain
    \/ MainReturn
    \/ MainUncaught

Spec == Init /\ [][Next]_vars

(***************************************************************************)
(* Vocabulary of the properties.                                           *)
(***************************************************************************)
Returned == pc = "returned"

Verdict == result[1].verdict

\* The call was verify_chain's walk over a non-empty array of objects.
Walked == Returned /\ ordered # <<>>

\* The walk met no fatal check.
Completed == Walked /\ walk.ret = None

InputEvents == chain_doc.events.items

VerdictOf(doc, events, at) == verify_chain(doc, ChainDoc(events), at).ret[1].verdict

PermutationsOf(events) ==
    {[i \in 1..Len(events) |-> events[p[i]]] : p \in Permutations(1..Len(events))}

\* C1: for every chain and every permutation of its events array,
\* verify_chain (same policy document, same evaluatedAt) returns the same
\* verdict, also when two events share the same (recorded_at, event_id).
C1_PermutationKeepsVerdict ==
    Walked =>
        \A permuted \in PermutationsOf(InputEvents) :
            VerdictOf(domain_doc, permuted, evaluated_at) = Verdict

\* The values a field of an event can be changed to.
TamperValues(events, field) ==
    LET hashes == {StrGet(events[i], f) : i \in 1..Len(events),
                                          f \in {"event_hash", "prev_event_hash"}}
                  \cup {compute_event_hash(events[i]) : i \in 1..Len(events)}
    IN CASE field \in {"event_hash", "prev_event_hash"} ->
                {<<>>, <<"null">>, BogusHash} \cup hashes
                \cup {<<" ">> \o h : h \in hashes} \cup {h \o <<" ">> : h \in hashes}
                \cup {Strip(h) : h \in hashes}
         [] field \in ObjectKeys ->
                {[value |-> <<>>], [value |-> <<"sig-2">>], [alg |-> <<"ed25519">>],
                 [entry_id |-> <<"log-2">>]}
         [] OTHER ->
                {<<>>, <<"a">>, <<"b">>, <<" ", "a">>, T1, T2, T3, TBad, <<"NOTE">>,
                 <<"ATTESTATION_ISSUED">>, <<"tampered">>}

\* C2: tamper evidence. From a chain verify_chain finds VERIFIED, changing
\* the value of any field of a full-payload event makes verify_chain return
\* INVALID_CHAIN (the hash function is collision-free).
C2_TamperYieldsInvalidChain ==
    (Walked /\ Verdict = VERDICT_VERIFIED) =>
        \A i \in 1..Len(InputEvents) :
            \A field \in DOMAIN InputEvents[i] :
                \A v \in TamperValues(InputEvents, field) :
                    (IsFullPayload(InputEvents[i]) /\ v # InputEvents[i][field]) =>
                        VerdictOf(domain_doc,
                                  [InputEvents EXCEPT ![i] = Put(@, field, v)],
                                  evaluated_at) = VERDICT_INVALID_CHAIN

\* The event at position i of the canonical order is linked as a hash-linked
\* log demands: the first has no prev_event_hash (absent, empty or the word
\* null), a later one names the event_hash of the event before it.
WellLinked(i) ==
    IF i = 1
    THEN Get(ordered[1], "prev_event_hash") \in {None, Some(<<>>), Some(<<"null">>)}
    ELSE /\ "prev_event_hash" \in DOMAIN ordered[i]
         /\ "event_hash" \in DOMAIN ordered[i - 1]
         /\ ordered[i].prev_event_hash = ordered[i - 1].event_hash

\* C3: whenever verify_chain returns VERIFIED or UNVERIFIABLE the chain is a
\* well-formed hash-linked log in canonical order, and a chain that is not
\* gets INVALID_CHAIN unless an event before the ill-linked one failed.
C3_WellFormedLog ==
    Walked =>
        /\ Verdict \in {VERDICT_VERIFIED, VERDICT_UNVERIFIABLE} =>
              \A i \in 1..Len(ordered) : WellLinked(i)
        /\ \A i \in 1..Len(ordered) :
              ~WellLinked(i) =>
                  \/ Verdict = VERDICT_INVALID_CHAIN
                  \/ (walk.ret # None /\ index + 1 < i)

\* The walk came to the policy stage of the event at position i: no event
\* before it failed, and its own id, linkage and hash checks passed.
ReachedPolicyStage(i) ==
    \/ Completed
    \/ index + 1 > i
    \/ (index + 1 = i /\ Verdict # VERDICT_INVALID_CHAIN)

\* The event carries a non-empty evt[key][field].
Carries(evt, key, field) ==
    /\ key \in DOMAIN evt
    /\ field \in DOMAIN evt[key]
    /\ evt[key][field] # <<>>

\* The policy requires a kind of evidence the event does not carry.
LacksRequiredEvidence(evt) ==
    \/ (PolicyFlag(domain_doc, "signature_required") /\ ~Carries(evt, "signature", "value"))
    \/ (PolicyFlag(domain_doc, "timestamp_required") /\ ~Carries(evt, "timestamp", "value"))
    \/ (PolicyFlag(domain_doc, "transparency_anchoring_required")
            /\ ~Carries(evt, "transparency", "entry_id"))

\* C4: if the events up to and including an attestation-type event E pass
\* the id, linkage and hash checks and E lacks a signature.value,
\* timestamp.value or transparency.entry_id the policy requires, the verdict
\* is POLICY_VIOLATION, whatever other fields E carries.
C4_MissingEvidenceIsPolicyViolation ==
    Walked =>
        \A i \in 1..Len(ordered) :
            (IsAttestation(ordered[i]) /\ ReachedPolicyStage(i)
                /\ LacksRequiredEvidence(ordered[i]))
            => Verdict = VERDICT_POLICY_VIOLATION

\* C5: verify_chain never returns VERIFIED for a chain with an
\* attestation-type event that carries a signature.value; a chain that passes
\* every fatal check ends UNVERIFIABLE exactly when a diagnostic was
\* accumulated, and VERIFIED with an empty diagnostic list otherwise.
C5_UnverifiedSignatureNeverVerified ==
    Walked =>
        /\ (\E i \in 1..Len(ordered) :
                IsAttestation(ordered[i]) /\ Carries(ordered[i], "signature", "value"))
           => Verdict # VERDICT_VERIFIED
        /\ Completed =>
              /\ Verdict = (IF walk.errors # <<>> THEN VERDICT_UNVERIFIABLE
                            ELSE VERDICT_VERIFIED)
              /\ result[1].errors = walk.errors

\* The event's effective_at and recorded_at are both present, both
\* timestamps, and neither is after the evaluation time.
Qualifies(evt) ==
    /\ "effective_at" \in DOMAIN evt
    /\ "recorded_at" \in DOMAIN evt
    /\ parse_utc_or_die(evt.effective_at).ok
    /\ parse_utc_or_die(evt.recorded_at).ok
    /\ parse_utc_or_die(evt.effective_at).t <= evaluated_at
    /\ parse_utc_or_die(evt.recorded_at).t <= evaluated_at

LastQualifying ==
    LET qualifying == {i \in 1..Len(ordered) : Qualifies(ordered[i])}
    IN IF qualifying = {} THEN 0
       ELSE CHOOSE i \in qualifying : \A j \in qualifying : j <= i

\* C6 as stated: after a completed walk active_event_id is the event_id of
\* the last event in canonical order whose effective_at and recorded_at are
\* both present and both <= evaluatedAt, and null exactly when there is none.
C6_ActiveIsLastQualifyingId ==
    Completed =>
        result[1].active_event_id =
            (IF LastQualifying = 0 THEN None
             ELSE Some(ordered[LastQualifying].event_id))

\* C6 amended: active_event_id is that event's event_id with surrounding
\* whitespace stripped.
C6_ActiveIsLastQualifyingStrippedId ==
    Completed =>
        result[1].active_event_id =
            (IF LastQualifying = 0 THEN None
             ELSE Some(Strip(ordered[LastQualifying].event_id)))

\* Two events qualify and the later one, whose id carries surrounding
\* whitespace, is the active one.
C6_Witness ==
    /\ Completed
    /\ Len(ordered) >= 2
    /\ Qualifies(ordered[1])
    /\ LastQualifying = 2
    /\ ordered[2].event_id # Strip(ordered[2].event_id)
    /\ result[1].active_event_id = Some(Strip(ordered[2].event_id))

(***************************************************************************)
(* What does hold of verify_chain where C1..C5 fail: each statement below  *)
(* is the claim with the one case that breaks it taken out.                *)
(***************************************************************************)
DistinctKeys(events) ==
    \A i, j \in 1..Len(events) : i # j => event_key(events[i]) # event_key(events[j])

\* C1 without ties: chains whose events have pairwise distinct
\* (recorded_at, event_id) keys get the same verdict under every permutation.
C1_DistinctKeysKeepVerdict ==
    (Walked /\ DistinctKeys(InputEvents)) =>
        \A permuted \in PermutationsOf(InputEvents) :
            VerdictOf(domain_doc, permuted, evaluated_at) = Verdict

\* C2 without whitespace: every change of a field of a full-payload event,
\* other than one that only adds or removes whitespace around its
\* event_hash, yields INVALID_CHAIN.
C2_TamperBeyondWhitespace ==
    (Walked /\ Verdict = VERDICT_VERIFIED) =>
        \A i \in 1..Len(InputEvents) :
            \A field \in DOMAIN InputEvents[i] :
                \A v \in TamperValues(InputEvents, field) :
                    (/\ IsFullPayload(InputEvents[i])
                     /\ v # InputEvents[i][field]
                     /\ ~(field = "event_hash" /\ Strip(v) = Strip(InputEvents[i][field])))
                    => VerdictOf(domain_doc,
                                 [InputEvents EXCEPT ![i] = Put(@, field, v)],
                                 evaluated_at) = VERDICT_INVALID_CHAIN

\* C3 up to whitespace: a later event names the stripped event_hash of the
\* event before it.
StripLinked(i) ==
    IF i = 1
    THEN Get(ordered[1], "prev_event_hash") \in {None, Some(<<>>), Some(<<"null">>)}
    ELSE /\ "prev_event_hash" \in DOMAIN ordered[i]
         /\ "event_hash" \in DOMAIN ordered[i - 1]
         /\ ordered[i].prev_event_hash = Strip(ordered[i - 1].event_hash)

C3_StripLinkedLog ==
    Walked =>
        \A i \in 1..Len(ordered) :
            ~StripLinked(i) =>
                \/ Verdict = VERDICT_INVALID_CHAIN
                \/ (walk.ret # None /\ index + 1 < i)

\* C4 for full-payload events only.
C4_FullPayloadMissingEvidence ==
    Walked =>
        \A i \in 1..Len(ordered) :
            (IsAttestation(ordered[i]) /\ IsFullPayload(ordered[i])
                /\ ReachedPolicyStage(i) /\ LacksRequiredEvidence(ordered[i]))
            => Verdict = VERDICT_POLICY_VIOLATION

\* C5 for full-payload events under a policy that requires signatures.
C5_RequiredSignatureNeverVerified ==
    (/\ Walked
     /\ PolicyFlag(domain_doc, "signature_required")
     /\ \E i \in 1..Len(ordered) :
            /\ IsAttestation(ordered[i])
            /\ IsFullPayload(ordered[i])
            /\ Carries(ordered[i], "signature", "value"))
    => Verdict # VERDICT_VERIFIED

(***************************************************************************)
(* verify_remote_artifact: the fetches and the two discovery paths.        *)
(***************************************************************************)
RemoteCall == command = "verify-url"

\* The call is over: it returned a result or an exception left it.
CallEnded == pc \in {"returned", "raised"}

FailedFetch(i) == fetches[i].outcome # "ok"

PolicyFetched == fetches # <<>> /\ fetches[1].outcome = "ok"

\* C7: verify_remote_artifact returns UNDECLARED exactly when the policy
\* fetch fails with HTTP 404; every other failure of the policy fetch and
\* every failure of the event-feed or manifest fetch yields UNVERIFIABLE; a
\* failed fetch is the last fetch of the call, which ends with it.
C7_FetchFailureVerdicts ==
    RemoteCall =>
        /\ \A i \in 1..Len(fetches) :
              FailedFetch(i) => (i = Len(fetches) /\ Returned)
        /\ \A i, j \in 1..Len(fetches) : i # j => fetches[i].url # fetches[j].url
        /\ Returned =>
              /\ (Verdict = VERDICT_UNDECLARED)
                    <=> (fetches # <<>> /\ fetches[1].outcome = "HTTP 404")
              /\ \A i \in 1..Len(fetches) :
                    (FailedFetch(i) /\ ~(i = 1 /\ fetches[i].outcome = "HTTP 404"))
                    => Verdict = VERDICT_UNVERIFIABLE

\* The manifest fetch answers HTTP 404: the verdict is UNVERIFIABLE, not
\* UNDECLARED, and the call is over after two fetches.
C7_Witness ==
    /\ RemoteCall
    /\ Returned
    /\ Len(fetches) = 2
    /\ fetches[2].outcome = "HTTP 404"
    /\ Verdict = VERDICT_UNVERIFIABLE

\* The document holds a string under evidence_api.events_by_artifact.
HasTemplateText(doc) ==
    /\ IsDict(doc)
    /\ "evidence_api" \in DOMAIN doc
    /\ IsDict(doc.evidence_api)
    /\ "events_by_artifact" \in DOMAIN doc.evidence_api
    /\ IsStr(doc.evidence_api.events_by_artifact)

\* The second fetch of the call went to the event feed, and the call ended
\* as verify_chain ends on the policy document and the events fetched.
TookEventPath ==
    /\ HasTemplateText(domain_doc)
    /\ Len(fetches) = 2
    /\ fetches[2].url = events_url(domain_doc, canonical_url)
    /\ fetches[2].outcome = "ok" =>
          [raised |-> raised, ret |-> result]
              = verify_chain(domain_doc, chain_doc, evaluated_at)

\* The second fetch of the call went to the manifest at canonicalURL + suffix.
TookLegacyPath ==
    /\ Len(fetches) = 2
    /\ fetches[2].url = manifest_url(domain_doc, canonical_url)

\* The document declares a 1.1-series spec_version and, under evidence_api,
\* an events_by_artifact template.
DeclaresEventFeed(doc) ==
    /\ IsDict(doc)
    /\ StartsWith(SpecVersion(doc), <<"1.1">>)
    /\ "evidence_api" \in DOMAIN doc
    /\ "events_by_artifact" \in DOMAIN doc.evidence_api

\* C8 as stated: after a successful fetch of a policy document (a JSON
\* object) the call takes the event path if and only if the document declares
\* a 1.1-series spec_version with an events_by_artifact template, and the
\* legacy path in every other case.
C8_ExactlyOneOfTwoPaths ==
    (RemoteCall /\ CallEnded /\ PolicyFetched /\ IsDict(domain_doc)) =>
        IF DeclaresEventFeed(domain_doc)
        THEN TookEventPath /\ ~TookLegacyPath
        ELSE TookLegacyPath /\ ~TookEventPath

\* The document names a 1.1-series version and an evidence_api object.
NamesEvidenceApi(doc) ==
    /\ IsDict(doc)
    /\ StartsWith(SpecVersion(doc), <<"1.1">>)
    /\ "evidence_api" \in DOMAIN doc
    /\ IsDict(doc.evidence_api)

\* ... and under it a string template with the {artifact_url} placeholder.
HasUsableTemplate(doc) ==
    /\ "events_by_artifact" \in DOMAIN doc.evidence_api
    /\ IsStr(doc.evidence_api.events_by_artifact)
    /\ \E i \in 1..Len(doc.evidence_api.events_by_artifact.text) :
          doc.evidence_api.events_by_artifact.text[i] = "{artifact_url}"

\* C8 amended: after a successful policy fetch the call makes at most one
\* more fetch. A document with a 1.1-series spec_version and an evidence_api
\* object takes the event path if its events_by_artifact is a string with
\* the {artifact_url} placeholder and otherwise returns UNVERIFIABLE without
\* a second fetch; every other object takes the legacy path; a document that
\* is no object ends the call without a second fetch.
C8_PathByPolicyDocument ==
    (RemoteCall /\ CallEnded /\ PolicyFetched) =>
        IF ~IsDict(domain_doc) THEN Len(fetches) = 1 /\ ~Returned
        ELSE IF NamesEvidenceApi(domain_doc) /\ HasUsableTemplate(domain_doc)
        THEN TookEventPath /\ ~TookLegacyPath
        ELSE IF NamesEvidenceApi(domain_doc)
        THEN Len(fetches) = 1 /\ Returned /\ Verdict = VERDICT_UNVERIFIABLE
        ELSE TookLegacyPath /\ ~TookEventPath

\* A 1.1 document whose evidence_api object has no usable template: the call
\* returned UNVERIFIABLE after the policy fetch alone.
C8_Witness ==
    /\ RemoteCall
    /\ Returned
    /\ PolicyFetched
    /\ NamesEvidenceApi(domain_doc)
    /\ ~HasUsableTemplate(domain_doc)
    /\ Len(fetches) = 1
    /\ Verdict = VERDICT_UNVERIFIABLE

(***************************************************************************)
(* The legacy manifest path.                                               *)
(***************************************************************************)
\* The call returned from the checks of a manifest it fetched.
OnLegacyPath == RemoteCall /\ Returned /\ manifest # NoDoc

SignatureRequired == PolicyFlag(domain_doc, "signature_required")

\* The manifest's artifact_url canonicalizes to the request's canonical URL.
ManifestMatchesUrl ==
    canonicalize_artifact_url(StrGet(manifest, "artifact_url"))
        = [raised |-> "", url |-> canonical_url]

\* C9 as stated: on the legacy path VERIFIED is returned only if the policy
\* requires no signature, the manifest's artifact_url canonicalizes to the
\* canonical URL and content_sha256 is 64 lowercase hex characters; when a
\* signature is required the verdict is POLICY_VIOLATION if signature.value
\* is absent and UNVERIFIABLE if it is present.
C9_LegacyManifestVerdicts ==
    OnLegacyPath =>
        /\ Verdict = VERDICT_VERIFIED =>
              /\ ~SignatureRequired
              /\ ManifestMatchesUrl
              /\ IsLowerHex64(StrGet(manifest, "content_sha256"))
        /\ SignatureRequired =>
              Verdict = (IF Carries(manifest, "signature", "value")
                         THEN VERDICT_UNVERIFIABLE ELSE VERDICT_POLICY_VIOLATION)

\* C9 amended: the manifest's artifact_url must canonicalize to the canonical
\* URL and content_sha256, with surrounding whitespace stripped, must be 64
\* lowercase hex characters, else the verdict is INVALID_INPUT; a manifest
\* that passes both gets POLICY_VIOLATION if a signature is required and
\* signature.value is absent or empty, UNVERIFIABLE if it is required and
\* present, and VERIFIED otherwise. No manifest is VERIFIED under a policy
\* that requires a signature.
C9_LegacyManifestVerdictsInOrder ==
    OnLegacyPath =>
        /\ Verdict =
              (IF ~ManifestMatchesUrl
                  \/ ~IsLowerHex64(Strip(StrGet(manifest, "content_sha256")))
               THEN VERDICT_INVALID_INPUT
               ELSE IF ~SignatureRequired THEN VERDICT_VERIFIED
               ELSE IF Carries(manifest, "signature", "value") THEN VERDICT_UNVERIFIABLE
               ELSE VERDICT_POLICY_VIOLATION)
        /\ SignatureRequired => Verdict # VERDICT_VERIFIED

\* A manifest under a policy that requires a signature, with a matching
\* artifact_url, a content_sha256 in surrounding whitespace and a signature:
\* the verdict is UNVERIFIABLE.
C9_Witness ==
    /\ OnLegacyPath
    /\ SignatureRequired
    /\ ManifestMatchesUrl
    /\ StrGet(manifest, "content_sha256") # Strip(StrGet(manifest, "content_sha256"))
    /\ Carries(manifest, "signature", "value")
    /\ Verdict = VERDICT_UNVERIFIABLE

(***************************************************************************)
(* Totality.                                                               *)
(***************************************************************************)
\* C10: every call of verify_remote_artifact and of verify_chain ends by
\* returning one VerificationResult whose verdict is one of the six; no
\* exception reaches the caller.
C10_NoExceptionReachesCaller ==
    /\ pc # "raised"
    /\ raised = ""
    /\ Returned => (result # None /\ Verdict \in Verdicts)

\* What does hold: a call that returns returns one result with one of the
\* six verdicts, and an exception leaves a call only from the places where
\* the code canonicalizes a URL or calls .get on a fetched or given value.
C10_ReturnedResultIsAVerdict ==
    /\ Returned => (result # None /\ raised = "" /\ Verdict \in Verdicts)
    /\ (pc = "raised" /\ argv = NoDoc)
       => (result = None /\ raised \in {"ValueError", "AttributeError"})

(***************************************************************************)
(* Malformed timestamps.                                                   *)
(***************************************************************************)
\* The event carries a recorded_at or an effective_at that is no RFC3339
\* timestamp with a timezone.
MalformedTimestamp(evt) ==
    \/ ("recorded_at" \in DOMAIN evt /\ ~parse_utc_or_die(evt.recorded_at).ok)
    \/ ("effective_at" \in DOMAIN evt /\ ~parse_utc_or_die(evt.effective_at).ok)

\* No check failed before the timestamps of the event at position i: no
\* event before it failed and its own id, linkage, hash and policy checks
\* passed.
ReachedTimestampStage(i) ==
    \/ Completed
    \/ index + 1 > i
    \/ (index + 1 = i /\ Verdict \notin {VERDICT_INVALID_CHAIN, VERDICT_POLICY_VIOLATION})

\* A run of the CLI that has ended.
Exited == argv # NoDoc /\ exit_code # None

\* The chain part of C11: a malformed recorded_at or effective_at met with
\* no earlier failure gives INVALID_INPUT.
C11_MalformedEventTimestamp ==
    Walked =>
        \A i \in 1..Len(ordered) :
            (MalformedTimestamp(ordered[i]) /\ ReachedTimestampStage(i))
            => Verdict = VERDICT_INVALID_INPUT

\* The CLI part of C11: a run of verify-url or verify-chain given a
\* malformed --evaluated-at ends with the verdict INVALID_INPUT.
C11_MalformedEvaluatedAt ==
    (Exited /\ command # "run-vectors" /\ ~parse_utc_or_die(argv.evaluated_at).ok)
    => (result # None /\ Verdict = VERDICT_INVALID_INPUT)

\* C11: for every chain in which an event's recorded_at or effective_at is
\* no valid timezone-bearing RFC3339 timestamp and no earlier check fails,
\* verify_chain returns INVALID_INPUT, never VERIFIED or UNVERIFIABLE, and a
\* malformed --evaluated-at given to the CLI resolves to the verdict
\* INVALID_INPUT.
C11_MalformedTimestampIsInvalidInput ==
    C11_MalformedEventTimestamp /\ C11_MalformedEvaluatedAt

\* A chain whose only event has a recorded_at without a timezone and no
\* effective_at has been walked to the end.
C11_Witness ==
    /\ Completed
    /\ Len(ordered) = 1
    /\ MalformedTimestamp(ordered[1])
    /\ "effective_at" \notin DOMAIN ordered[1]

\* What does hold: a timestamp that verify_chain parses and that is malformed
\* gives INVALID_INPUT. effective_at is parsed when both timestamps are
\* present and not empty, recorded_at only if moreover effective_at is not
\* after the evaluation time.
C11_ParsedMalformedTimestamp ==
    Walked =>
        \A i \in 1..Len(ordered) :
            (/\ ReachedTimestampStage(i)
             /\ Truthy(ordered[i], "effective_at")
             /\ Truthy(ordered[i], "recorded_at")
             /\ \/ ~parse_utc_or_die(ordered[i].effective_at).ok
                \/ (parse_utc_or_die(ordered[i].effective_at).t <= evaluated_at
                    /\ ~parse_utc_or_die(ordered[i].recorded_at).ok))
            => Verdict = VERDICT_INVALID_INPUT

\* What does hold of the CLI: a malformed --evaluated-at ends the run with
\* the ValueError of parse_utc_or_die, no verdict and exit status 1.
C11_MalformedEvaluatedAtRaises ==
    (Exited /\ command # "run-vectors" /\ ~parse_utc_or_die(argv.evaluated_at).ok)
    => (result = None /\ raised = "ValueError" /\ exit_code = Some(1))

(***************************************************************************)
(* The exit status of the CLI.                                             *)
(***************************************************************************)
\* Every vector of the file has the expectation the codec computes.
VectorsMatch(vectors) ==
    /\ \A i \in 1..Len(SuiteCases(vectors, "json_canonicalization")) :
          LET case == SuiteCases(vectors, "json_canonicalization")[i]
          IN /\ case.expected_canonical_json = canonical_json_bytes(case.input)
             /\ case.expected_sha256 = sha256_hex(case.expected_canonical_json)
    /\ \A i \in 1..Len(SuiteCases(vectors, "url_canonicalization")) :
          LET case == SuiteCases(vectors, "url_canonicalization")[i]
          IN canonicalize_artifact_url(case.input) = [raised |-> "", url |-> case.expected]
    /\ \A i \in 1..Len(SuiteCases(vectors, "event_hash")) :
          LET case == SuiteCases(vectors, "event_hash")[i]
          IN case.expected_event_hash = compute_event_hash(case.input)

\* The outcome of the run is the verdict VERIFIED or a run of the vectors
\* with no mismatch.
GoodOutcome ==
    IF command = "run-vectors"
    THEN raised = "" /\ VectorsMatch(argv.vectors.json)
    ELSE result # None /\ Verdict = VERDICT_VERIFIED

Recanonicalized == command = "canonicalize_artifact_url" /\ index = 2

\* C13: for every URL u that canonicalize_artifact_url accepts, with or
\* without userinfo, explicit port, dot-segments, percent-escapes, query and
\* fragment, canonicalize_artifact_url(canonicalize_artifact_url(u))
\* succeeds and equals canonicalize_artifact_url(u).
C13_CanonicalizeIsIdempotent ==
    Recanonicalized => (raised = "" /\ canonical_url = url)

\* The canonical form of a URL whose host is an IPv6 literal has been
\* canonicalized again.
C13_Witness ==
    /\ Recanonicalized
    /\ \E i \in 1..Len(url) : url[i] = "1"

\* What does hold: the second call returns the URL it is given unless the
\* host of the first URL was an IPv6 literal, whose brackets the first call
\* drops, and then the second call raises ValueError.
C13_IdempotentButForIPv6 ==
    Recanonicalized =>
        IF \E i \in 1..Len(url) : url[i] = "1"
        THEN raised = "ValueError"
        ELSE raised = "" /\ canonical_url = url

\* compute_event_hash has been called on both events of a pair.
Hashed == command = "compute_event_hash" /\ index = 2

\* The two events are equal on every field other than event_hash.
EqualButForEventHash == Pop(ordered[1], "event_hash") = Pop(ordered[2], "event_hash")

\* C14: for any two events that are equal on every field other than
\* event_hash, which may differ in value or be absent in one of them,
\* compute_event_hash returns the same digest, and a call leaves the event
\* passed to it unchanged, event_hash still present.
C14_EventHashExcludesItself ==
    /\ []((Hashed /\ EqualButForEventHash) => result[1] = result[2])
    /\ [][command = "compute_event_hash" => ordered' = ordered]_vars

\* Both events of a pair have been hashed, the first with an event_hash and
\* the second without one.
C14_Witness ==
    /\ Hashed
    /\ EqualButForEventHash
    /\ "event_hash" \in DOMAIN ordered[1]
    /\ "event_hash" \notin DOMAIN ordered[2]

\* Beyond the claim: with a collision-free digest, two events that differ
\* in another field have different digests.
C14_OtherFieldsChangeTheDigest ==
    (Hashed /\ ~EqualButForEventHash) => result[1] # result[2]

(***************************************************************************)
(* Precedence of the checks of verify_chain.                               *)
(***************************************************************************)
\* The checks of the event at position i of the canonical order, each as
\* the loop evaluates it and on its own.
IdAtPosition(i) == Strip(StrGet(ordered[i], "event_id"))

HashAtPosition(i) == Strip(StrGet(ordered[i], "event_hash"))

IdOrHashMissing(i) == IdAtPosition(i) = <<>> \/ HashAtPosition(i) = <<>>

LinkageFails(i) ==
    ~LinkageOk(i - 1, Get(ordered[i], "prev_event_hash"),
               IF i = 1 THEN <<>> ELSE HashAtPosition(i - 1))

HashFails(i) ==
    IsFullPayload(ordered[i]) /\ compute_event_hash(ordered[i]) # HashAtPosition(i)

PolicyFails(i) ==
    /\ IsFullPayload(ordered[i])
    /\ IsAttestation(ordered[i])
    /\ MissingEvidence(domain_doc, ordered[i]) # <<>>

TimestampFails(i) == ResolveActive(ordered[i], evaluated_at).raised

\* The verdicts of the failing checks of the event, in the order of the
\* checks.
FailingChecks(i) ==
    (IF IdOrHashMissing(i) THEN <<VERDICT_INVALID_CHAIN>> ELSE <<>>)
    \o (IF LinkageFails(i) THEN <<VERDICT_INVALID_CHAIN>> ELSE <<>>)
    \o (IF HashFails(i) THEN <<VERDICT_INVALID_CHAIN>> ELSE <<>>)
    \o (IF PolicyFails(i) THEN <<VERDICT_POLICY_VIOLATION>> ELSE <<>>)
    \o (IF TimestampFails(i) THEN <<VERDICT_INVALID_INPUT>> ELSE <<>>)

\* The diagnostic of the first failing check of the event.
FirstDiagnostic(i) ==
    IF IdOrHashMissing(i) THEN <<"event_id or event_hash missing">>
    ELSE IF LinkageFails(i)
    THEN (IF i = 1
          THEN <<"genesis event ">> \o IdAtPosition(i) \o <<" has non-null prev_event_hash">>
          ELSE <<"prev_event_hash mismatch at ">> \o IdAtPosition(i))
    ELSE IF HashFails(i) THEN <<"event_hash mismatch at ">> \o IdAtPosition(i)
    ELSE IF PolicyFails(i) THEN MissingEvidence(domain_doc, ordered[i]) \o IdAtPosition(i)
    ELSE ResolveActive(ordered[i], evaluated_at).err

\* The positions of the events with a failing check.
FailingPositions == {i \in 1..Len(ordered) : FailingChecks(i) # <<>>}

FirstFailingPosition ==
    CHOOSE i \in FailingPositions : \A j \in FailingPositions : i <= j

\* C15: the fatal verdict of verify_chain is that of the first failing check
\* met while walking the events in canonical order, the checks of one event
\* taken in the order missing event_id or event_hash, genesis and linkage,
\* hash recomputation, policy requirements, timestamp resolution; a failure
\* at an earlier event wins over any failure at a later one, and the fatal
\* result carries its own diagnostic alone, none of those gathered before.
C15_FirstFailingCheckWins ==
    Walked =>
        IF FailingPositions = {}
        THEN Verdict \in {VERDICT_VERIFIED, VERDICT_UNVERIFIABLE}
        ELSE /\ Verdict = Head(FailingChecks(FirstFailingPosition))
             /\ result[1].errors = <<FirstDiagnostic(FirstFailingPosition)>>
             /\ index + 1 = FirstFailingPosition

\* The first event passed with a non-fatal diagnostic; the second fails the
\* hash, the policy and the timestamp checks, and a hash mismatch is all the
\* result reports.
C15_Witness ==
    /\ Walked
    /\ Len(ordered) = 2
    /\ walk.errors # <<>>
    /\ FailingChecks(1) = <<>>
    /\ FailingChecks(2)
          = <<VERDICT_INVALID_CHAIN, VERDICT_POLICY_VIOLATION, VERDICT_INVALID_INPUT>>
    /\ Verdict = VERDICT_INVALID_CHAIN
    /\ Len(result[1].errors) = 1

====
